---- MODULE Spec2Model ----
(***************************************************************************)
(* The position core of the engine (src/src/position.cpp), standard chess  *)
(* (var = CHESS_VARIANT: every is_<variant>() test is false).              *)
(*                                                                         *)
(* A Bitboard is the set of its squares.  A Key is the set of the          *)
(* independent PRNG draws XORed into it, so XOR is symmetric difference.   *)
(* A Position is a record of the object's fields; the StateInfo chain is   *)
(* the sequence `states`, st being its last element and st->previous the   *)
(* one before it.                                                          *)
(***************************************************************************)
EXTENDS Integers, Sequences, FiniteSets, TLC

VARIABLES pos, hist, last

vars == <<pos, hist, last>>

---------------------------------------------------------------------------
(* Bounds of the model *)

\* most do_move / do_null_move calls along one run of Spec
MaxNodes == 2

---------------------------------------------------------------------------
(* Types: colours, piece types, pieces, squares, moves *)

WHITE == 0
BLACK == 1
Colors == {WHITE, BLACK}

NO_PIECE_TYPE == 0
ALL_PIECES == 0
PAWN == 1
KNIGHT == 2
BISHOP == 3
ROOK == 4
QUEEN == 5
KING == 6
PieceTypes == PAWN..KING

NO_PIECE == 0
PIECE_NB == 16
\* W_PAWN..W_KING = 1..6, B_PAWN..B_KING = 9..14
Pieces == (1..6) \cup (9..14)

SQ_NONE == 64
Squares == 0..63
FILE_NB == 8

Opp(c) == 1 - c
make_piece(c, pt) == c * 8 + pt
type_of(pc) == pc % 8
color_of(pc) == pc \div 8
file_of(s) == s % 8
rank_of(s) == s \div 8
make_square(f, r) == r * 8 + f
relative_rank(c, s) == IF c = WHITE THEN rank_of(s) ELSE 7 - rank_of(s)
relative_square(c, s) == IF c = WHITE THEN s ELSE make_square(file_of(s), 7 - rank_of(s))
pawn_push(c) == IF c = WHITE THEN 8 ELSE -8

SQ_A1 == 0
SQ_C1 == 2
SQ_D1 == 3
SQ_F1 == 5
SQ_G1 == 6
SQ_H1 == 7
SQ_A8 == 56
RANK_1 == 0
RANK_2 == 1
RANK_6 == 5
RANK_8 == 7

\* Move: to in bits 0-5, from in bits 6-11, promotion piece - KNIGHT in bits
\* 12-13, move kind in bits 14-15
NORMAL == 0
PROMOTION == 1
ENPASSANT == 2
CASTLING == 3
make_move(from, to) == from * 64 + to
make_special(T, from, to, pt) == T * 16384 + (pt - KNIGHT) * 4096 + from * 64 + to
from_sq(m) == (m \div 64) % 64
to_sq(m) == m % 64
move_type(m) == m \div 16384
promotion_type(m) == ((m \div 4096) % 4) + KNIGHT

\* CastlingRight: WHITE_OO = 1, WHITE_OOO = 2, BLACK_OO = 4, BLACK_OOO = 8;
\* a set of rights is the set of its single rights
KING_SIDE == 0
QUEEN_SIDE == 1
WHITE_OO == 1
WHITE_OOO == 2
BLACK_OO == 4
BLACK_OOO == 8
CastlingRights == {WHITE_OO, WHITE_OOO, BLACK_OO, BLACK_OOO}
castling_right(c, cs) == IF c = WHITE THEN (IF cs = KING_SIDE THEN WHITE_OO ELSE WHITE_OOO)
                         ELSE (IF cs = KING_SIDE THEN BLACK_OO ELSE BLACK_OOO)

Abs(x) == IF x < 0 THEN -x ELSE x
Max(a, b) == IF a > b THEN a ELSE b
Min(a, b) == IF a < b THEN a ELSE b
Sgn(x) == IF x > 0 THEN 1 ELSE IF x < 0 THEN -1 ELSE 0

---------------------------------------------------------------------------
(* Attack tables (bitboard.h): step attacks, pseudo attacks on an empty    *)
(* board, the squares between two aligned squares and the line through     *)
(* them.                                                                   *)

dFile(a, b) == file_of(b) - file_of(a)
dRank(a, b) == rank_of(b) - rank_of(a)
OnLineR(a, b) == a # b /\ (dFile(a, b) = 0 \/ dRank(a, b) = 0)
OnLineB(a, b) == a # b /\ Abs(dFile(a, b)) = Abs(dRank(a, b))

KnightAttacks == [s \in Squares |-> {t \in Squares :
                    {Abs(dFile(s, t)), Abs(dRank(s, t))} = {1, 2}}]
KingAttacks == [s \in Squares |-> {t \in Squares :
                    t # s /\ Abs(dFile(s, t)) <= 1 /\ Abs(dRank(s, t)) <= 1}]
PawnAttacks == [c \in Colors |-> [s \in Squares |-> {t \in Squares :
                    /\ Abs(dFile(s, t)) = 1
                    /\ dRank(s, t) = (IF c = WHITE THEN 1 ELSE -1)}]]
PseudoAttacksRook == [s \in Squares |-> {t \in Squares : OnLineR(s, t)}]
PseudoAttacksBishop == [s \in Squares |-> {t \in Squares : OnLineB(s, t)}]

Cross(a, b, t) == dFile(a, t) * dRank(a, b) - dRank(a, t) * dFile(a, b)
BetweenBB == [a \in Squares |-> [b \in Squares |->
                IF OnLineR(a, b) \/ OnLineB(a, b)
                THEN {t \in Squares :
                        /\ t # a /\ t # b /\ Cross(a, b, t) = 0
                        /\ Sgn(dFile(a, t)) = Sgn(dFile(a, b))
                        /\ Sgn(dRank(a, t)) = Sgn(dRank(a, b))
                        /\ Abs(dFile(a, t)) <= Abs(dFile(a, b))
                        /\ Abs(dRank(a, t)) <= Abs(dRank(a, b))}
                ELSE {}]]
LineBB == [a \in Squares |-> [b \in Squares |->
                IF OnLineR(a, b) \/ OnLineB(a, b)
                THEN {t \in Squares : Cross(a, b, t) = 0}
                ELSE {}]]

between_bb(a, b) == BetweenBB[a][b]
aligned(a, b, c) == c \in LineBB[a][b]
more_than_one(bb) == Cardinality(bb) > 1
\* lsb / pop_lsb: the lowest square of a non-empty bitboard
lsb(bb) == CHOOSE s \in bb : \A t \in bb : s <= t

attacks_bb_rook(s, occupied) ==
    {t \in PseudoAttacksRook[s] : BetweenBB[s][t] \cap occupied = {}}
attacks_bb_bishop(s, occupied) ==
    {t \in PseudoAttacksBishop[s] : BetweenBB[s][t] \cap occupied = {}}
\* attacks_bb(pt, s, occupied) for the non-pawn piece types
attacks_bb(pt, s, occupied) ==
    CASE pt = BISHOP -> attacks_bb_bishop(s, occupied)
      [] pt = ROOK   -> attacks_bb_rook(s, occupied)
      [] pt = QUEEN  -> attacks_bb_bishop(s, occupied) \cup attacks_bb_rook(s, occupied)
      [] pt = KNIGHT -> KnightAttacks[s]
      [] pt = KING   -> KingAttacks[s]
      [] OTHER       -> {}

---------------------------------------------------------------------------
(* Zobrist keys.  Position::init() draws every table entry from the PRNG;  *)
(* a Key is the set of the draws XORed into it, each draw named by a       *)
(* number: psq[pc][s] is pc * 64 + s, enpassant[f] is 1024 + f, the        *)
(* castling key of a single right r is 1040 + r, side is 1060 and noPawns  *)
(* is 1061.  castling[cr] is built as the XOR of the keys of the single    *)
(* rights in cr, castling[0] is 0 and variant[CHESS_VARIANT] is 0.         *)

XOR(a, b) == (a \ b) \cup (b \ a)

VALUE_ZERO == 0
VALUE_MATE == 32000
\* PieceValue[CHESS_VARIANT][MG][pc] (types.h), indexed by piece type; the
\* entries of a black piece are those of the white one, the king's is 0
PieceValueMg == <<188, 764, 826, 1282, 2526, 0>>
PieceValue(pc) == IF pc = NO_PIECE THEN 0 ELSE PieceValueMg[type_of(pc)]

\* A Score is kept as the sum of the PSQT::psq entries it was built from: the
\* set of <<entry, coefficient>> pairs with a coefficient other than 0.
\* PsqtPsq(pc, s) names the entry PSQT::psq[var][pc][s].
SCORE_ZERO == {}
PsqtPsq(pc, s) == pc * 64 + s
ScoreCoefficient(sc, e) ==
    IF \E t \in sc : t[1] = e THEN (CHOOSE t \in sc : t[1] = e)[2] ELSE 0
\* sc += d * entry
ScoreAdd(sc, e, d) ==
    LET c == ScoreCoefficient(sc, e) IN
    (sc \ {<<e, c>>}) \cup (IF c + d = 0 THEN {} ELSE {<<e, c + d>>})
ZobristPsq(pc, s) == {pc * 64 + s}
ZobristEnpassant(f) == {1024 + f}
ZobristCastling(cr) == {1040 + r : r \in cr}
ZobristSide == {1060}
ZobristNoPawns == {1061}
ZobristVariant == {}

---------------------------------------------------------------------------
(* Position::init().  The generator PRNG (misc.h) is kept as its seed and  *)
(* the number of draws made so far: a draw is a key of its own, never 0,   *)
(* fixed by the seed and by its place in the sequence of draws.  The       *)
(* tables of namespace Zobrist are a record; ZobristPsq, ZobristEnpassant, *)
(* ZobristCastling, ZobristSide and ZobristNoPawns above name its entries, *)
(* and KeyValue gives a key built from the names its value under a table.  *)

PRNG(seed) == [seed |-> seed, n |-> 0]
\* rng.rand<Key>(): the value drawn, and the generator after the draw
rand(rng) == [key |-> {<<rng.seed, rng.n>>}, rng |-> [rng EXCEPT !.n = @ + 1]]
\* the generator after d draws
Drawn(rng, d) == [rng EXCEPT !.n = @ + d]

\* variant: the generator is seeded from the clock of the run
init_rng_clock(clock) == PRNG(clock)

\* PRNG rng(1070372): the seed does not depend on the run
init_rng(clock) == PRNG(1070372)

\* the place of pc in the list Pieces (W_PAWN..W_KING, B_PAWN..B_KING)
PieceIndex(pc) == IF pc < 8 THEN pc - 1 ELSE pc - 3

\* for (Piece pc : Pieces) for (Square s ...) psq[pc][s] = rng.rand<Key>()
init_psq(rng) ==
    [pc \in Pieces |-> [s \in Squares |-> rand(Drawn(rng, PieceIndex(pc) * 64 + s)).key]]

\* for (File f ...) enpassant[f] = rng.rand<Key>()
init_enpassant(rng) == [f \in 0..(FILE_NB - 1) |-> rand(Drawn(rng, f)).key]

\* the rights of the integer cr in NO_CASTLING..ANY_CASTLING
RightsOf(cr) == {r \in CastlingRights : (cr \div r) % 2 = 1}

\* variant: a key is drawn for every right of every subset
init_castling_draws_always(k) == TRUE

\* k ? k : rng.rand<Key>(): a key is drawn when the single right has none yet
init_castling_draws(k) == k = {}

\* while (b): z is the table castling[] with the generator
RECURSIVE init_castling_bits(_, _, _)
init_castling_bits(z, cr, b) ==
    IF b = {} THEN z
    ELSE LET r == lsb(b)
             k == z.castling[{r}]
             draws == init_castling_draws(k)
             key == IF draws THEN rand(z.rng).key ELSE k IN
         init_castling_bits([castling |-> [z.castling EXCEPT ![cr] = XOR(@, key)],
                             rng |-> IF draws THEN rand(z.rng).rng ELSE z.rng],
                            cr, b \ {r})

\* the body of the loop over cr: castling[cr] = 0, then the loop over its bits
init_castling_cr(z, cr) ==
    LET rights == RightsOf(cr)
        z0 == [z EXCEPT !.castling[rights] = {}] IN
    init_castling_bits(z0, rights, rights)

\* the tables before init(): static storage, every entry 0
ZeroZobrist ==
    [psq |-> [pc \in Pieces |-> [s \in Squares |-> {}]],
     enpassant |-> [f \in 0..(FILE_NB - 1) |-> {}],
     castling |-> [cr \in SUBSET CastlingRights |-> {}],
     side |-> {}, noPawns |-> {}, variant |-> {}]

\* init() up to the loop over cr: the generator and the tables psq and
\* enpassant
init_tables(Z, clock) ==
    LET rng0 == init_rng(clock)
        rng1 == Drawn(rng0, Cardinality(Pieces) * Cardinality(Squares)) IN
    [Zobrist |-> [Z EXCEPT !.psq = init_psq(rng0), !.enpassant = init_enpassant(rng1)],
     rng |-> Drawn(rng1, FILE_NB)]

\* init() after the loop over cr: side, noPawns and variant[CHESS_VARIANT]
init_rest(Z, rng) ==
    LET side == rand(rng)
        noPawns == rand(side.rng) IN
    [Z EXCEPT !.side = side.key, !.noPawns = noPawns.key, !.variant = {}]

\* the table entry a name stands for
EntryValue(Z, n) ==
    IF n < 1024 THEN Z.psq[n \div 64][n % 64]
    ELSE IF n < 1040 THEN Z.enpassant[n - 1024]
    ELSE IF n < 1060 THEN Z.castling[{n - 1040}]
    ELSE IF n = 1060 THEN Z.side
    ELSE Z.noPawns

\* the value of the key k, a XOR of named entries, under the tables Z
RECURSIVE KeyValue(_, _)
KeyValue(Z, k) ==
    IF k = {} THEN {}
    ELSE LET n == lsb(k) IN XOR(EntryValue(Z, n), KeyValue(Z, k \ {n}))

---------------------------------------------------------------------------
(* Board store: put_piece, remove_piece, move_piece (position.h) act on    *)
(* board, the bitboards, pieceCount, pieceList and index of a Position P.  *)

put_piece(P, pc, s) ==
    LET n == P.pieceCount[pc] IN
    [P EXCEPT !.board[s] = pc,
              !.byTypeBB[ALL_PIECES] = @ \cup {s},
              !.byTypeBB[type_of(pc)] = @ \cup {s},
              !.byColorBB[color_of(pc)] = @ \cup {s},
              !.index[s] = n,
              !.pieceList[pc][n] = s,
              !.pieceCount[pc] = n + 1,
              !.pieceCount[make_piece(color_of(pc), ALL_PIECES)] = @ + 1]

\* remove_piece leaves board[s] to its caller and moves the last square of
\* the list into the slot of s
remove_piece(P, pc, s) ==
    LET n == P.pieceCount[pc] - 1
        lastSquare == P.pieceList[pc][n]
        i == P.index[s] IN
    [P EXCEPT !.byTypeBB[ALL_PIECES] = XOR(@, {s}),
              !.byTypeBB[type_of(pc)] = XOR(@, {s}),
              !.byColorBB[color_of(pc)] = XOR(@, {s}),
              !.pieceCount[pc] = n,
              !.index[lastSquare] = i,
              !.pieceList[pc] = [[@ EXCEPT ![i] = lastSquare] EXCEPT ![n] = SQ_NONE],
              !.pieceCount[make_piece(color_of(pc), ALL_PIECES)] = @ - 1]

move_piece(P, pc, from, to) ==
    LET i == P.index[from] IN
    [P EXCEPT !.byTypeBB[ALL_PIECES] = XOR(@, XOR({from}, {to})),
              !.byTypeBB[type_of(pc)] = XOR(@, XOR({from}, {to})),
              !.byColorBB[color_of(pc)] = XOR(@, XOR({from}, {to})),
              !.board = [[@ EXCEPT ![from] = NO_PIECE] EXCEPT ![to] = pc],
              !.index[to] = i,
              !.pieceList[pc][i] = to]

---------------------------------------------------------------------------
(* Accessors of position.h *)

St(P) == P.states[Len(P.states)]
piece_on(P, s) == P.board[s]
empty(P, s) == P.board[s] = NO_PIECE
moved_piece(P, m) == P.board[from_sq(m)]
pieces(P) == P.byTypeBB[ALL_PIECES]
pieces_pt(P, pt) == P.byTypeBB[pt]
pieces_pt2(P, pt1, pt2) == P.byTypeBB[pt1] \cup P.byTypeBB[pt2]
pieces_c(P, c) == P.byColorBB[c]
pieces_cpt(P, c, pt) == P.byColorBB[c] \cap P.byTypeBB[pt]
pieces_cpt2(P, c, pt1, pt2) == P.byColorBB[c] \cap (P.byTypeBB[pt1] \cup P.byTypeBB[pt2])
square_king(P, c) == P.pieceList[make_piece(c, KING)][0]
ep_square(P) == St(P).epSquare
checkers(P) == St(P).checkersBB
pinned_pieces(P, c) == St(P).blockersForKing[c] \cap pieces_c(P, c)
discovered_check_candidates(P) ==
    St(P).blockersForKing[Opp(P.sideToMove)] \cap pieces_c(P, P.sideToMove)
can_castle(P, cr) == cr \in St(P).castlingRights
castling_impeded(P, cr) == (pieces(P) \cap P.castlingPath[cr]) # {}
attacks_from_pawn(s, c) == PawnAttacks[c][s]
attacks_from(P, pc, s) ==
    IF type_of(pc) = PAWN THEN PawnAttacks[color_of(pc)][s]
    ELSE attacks_bb(type_of(pc), s, pieces(P))
capture(P, m) ==
    (~empty(P, to_sq(m)) /\ move_type(m) # CASTLING) \/ move_type(m) = ENPASSANT

---------------------------------------------------------------------------
(* slider_blockers, attackers_to, set_check_info, set_state *)

\* variant: a sniper counts however many pieces stand in between
slider_blockers_any_count(P, sliders, s) ==
    LET snipers == ((PseudoAttacksRook[s] \cap pieces_pt2(P, QUEEN, ROOK))
                    \cup (PseudoAttacksBishop[s] \cap pieces_pt2(P, QUEEN, BISHOP)))
                   \cap sliders
        b(sniperSq) == between_bb(s, sniperSq) \cap pieces(P) IN
    [blockers |-> UNION {b(sq) : sq \in snipers},
     pinners  |-> {sq \in snipers :
                     (b(sq) \cap pieces_c(P, color_of(piece_on(P, s)))) # {}}]

\* [blockers, pinners] for the sliders `sliders` aiming at square s
slider_blockers(P, sliders, s) ==
    LET snipers == ((PseudoAttacksRook[s] \cap pieces_pt2(P, QUEEN, ROOK))
                    \cup (PseudoAttacksBishop[s] \cap pieces_pt2(P, QUEEN, BISHOP)))
                   \cap sliders
        b(sniperSq) == between_bb(s, sniperSq) \cap pieces(P)
        single == {sq \in snipers : ~more_than_one(b(sq))} IN
    [blockers |-> UNION {b(sq) : sq \in single},
     pinners  |-> {sq \in single :
                     (b(sq) \cap pieces_c(P, color_of(piece_on(P, s)))) # {}}]

attackers_to_occ(P, s, occupied) ==
         (attacks_from_pawn(s, BLACK) \cap pieces_cpt(P, WHITE, PAWN))
    \cup (attacks_from_pawn(s, WHITE) \cap pieces_cpt(P, BLACK, PAWN))
    \cup (KnightAttacks[s] \cap pieces_pt(P, KNIGHT))
    \cup (attacks_bb_rook(s, occupied) \cap pieces_pt2(P, ROOK, QUEEN))
    \cup (attacks_bb_bishop(s, occupied) \cap pieces_pt2(P, BISHOP, QUEEN))
    \cup (KingAttacks[s] \cap pieces_pt(P, KING))

attackers_to(P, s) == attackers_to_occ(P, s, pieces(P))

\* set_check_info(si) on the position P: si with the check information set
set_check_info(P, si) ==
    LET w == slider_blockers(P, pieces_c(P, BLACK), square_king(P, WHITE))
        b == slider_blockers(P, pieces_c(P, WHITE), square_king(P, BLACK))
        ksq == square_king(P, Opp(P.sideToMove))
        cb == attacks_bb_bishop(ksq, pieces(P))
        cr == attacks_bb_rook(ksq, pieces(P)) IN
    [si EXCEPT !.blockersForKing = [c \in Colors |-> IF c = WHITE THEN w.blockers ELSE b.blockers],
               !.pinnersForKing  = [c \in Colors |-> IF c = WHITE THEN w.pinners ELSE b.pinners],
               !.checkSquares = [pt \in PieceTypes |->
                    CASE pt = PAWN   -> attacks_from_pawn(ksq, Opp(P.sideToMove))
                      [] pt = KNIGHT -> KnightAttacks[ksq]
                      [] pt = BISHOP -> cb
                      [] pt = ROOK   -> cr
                      [] pt = QUEEN  -> cb \cup cr
                      [] pt = KING   -> {}]]

\* the loops of set_state: XOR of psq[piece_on(s)][s] over the squares of a
\* bitboard, and of psq[pc][0 .. pieceCount[pc]-1] over the pieces
RECURSIVE XorPsq(_, _)
XorPsq(P, bb) ==
    IF bb = {} THEN {}
    ELSE LET s == lsb(bb) IN XOR(ZobristPsq(piece_on(P, s), s), XorPsq(P, bb \ {s}))

RECURSIVE XorCnt(_, _)
XorCnt(pc, n) == IF n = 0 THEN {} ELSE XOR(ZobristPsq(pc, n - 1), XorCnt(pc, n - 1))

RECURSIVE XorMaterial(_, _)
XorMaterial(P, pcs) ==
    IF pcs = {} THEN {}
    ELSE LET pc == lsb(pcs) IN
         XOR(XorCnt(pc, P.pieceCount[pc]), XorMaterial(P, pcs \ {pc}))

\* the sum over the piece types pt..QUEEN of pieceCount[pc] * PieceValue[pc]
RECURSIVE SumNonPawnMaterial(_, _, _)
SumNonPawnMaterial(P, c, pt) ==
    IF pt > QUEEN THEN 0
    ELSE P.pieceCount[make_piece(c, pt)] * PieceValue(make_piece(c, pt))
         + SumNonPawnMaterial(P, c, pt + 1)

\* set_state(si): the keys and the check information computed from scratch
set_state(P, si) ==
    LET k0 == XOR(ZobristVariant, XorPsq(P, pieces(P)))
        k1 == IF si.epSquare # SQ_NONE
              THEN XOR(k0, ZobristEnpassant(file_of(si.epSquare))) ELSE k0
        k2 == IF P.sideToMove = BLACK THEN XOR(k1, ZobristSide) ELSE k1
        k3 == XOR(k2, ZobristCastling(si.castlingRights))
        si1 == set_check_info(P, si) IN
    [si1 EXCEPT !.key = k3,
                !.pawnKey = XOR(ZobristNoPawns, XorPsq(P, pieces_pt(P, PAWN))),
                !.materialKey = XOR(ZobristVariant, XorMaterial(P, Pieces)),
                !.nonPawnMaterial = [c \in Colors |-> SumNonPawnMaterial(P, c, KNIGHT)],
                !.psq = {<<PsqtPsq(piece_on(P, s), s), 1>> : s \in pieces(P)},
                !.checkersBB = attackers_to(P, square_king(P, P.sideToMove))
                               \cap pieces_c(P, Opp(P.sideToMove))]

---------------------------------------------------------------------------
(* Position::set(fenStr, isChess960, v, si, th).  The position string is   *)
(* given field by field, each field as the sequence of its characters:     *)
(* [pl: piece placement, stm: active colour, ca: castling availability,    *)
(*  ep: en-passant field, hm: halfmove clock, fm: fullmove number].        *)

PieceToChar == <<" ", "P", "N", "B", "R", "Q", "K", " ", " ", "p", "n", "b", "r", "q", "k">>
npos == -1
\* PieceToChar.find(token)
PieceToCharFind(token) ==
    IF \E i \in 1..Len(PieceToChar) : PieceToChar[i] = token
    THEN (CHOOSE i \in 1..Len(PieceToChar) :
            PieceToChar[i] = token /\ \A j \in 1..(i - 1) : PieceToChar[j] # token) - 1
    ELSE npos
DigitValue == ("0" :> 0) @@ ("1" :> 1) @@ ("2" :> 2) @@ ("3" :> 3) @@ ("4" :> 4)
              @@ ("5" :> 5) @@ ("6" :> 6) @@ ("7" :> 7) @@ ("8" :> 8) @@ ("9" :> 9)
isdigit(token) == token \in DOMAIN DigitValue
FileLetter == ("a" :> 0) @@ ("b" :> 1) @@ ("c" :> 2) @@ ("d" :> 3)
              @@ ("e" :> 4) @@ ("f" :> 5) @@ ("g" :> 6) @@ ("h" :> 7)
FileLetterUpper == ("A" :> 0) @@ ("B" :> 1) @@ ("C" :> 2) @@ ("D" :> 3)
                   @@ ("E" :> 4) @@ ("F" :> 5) @@ ("G" :> 6) @@ ("H" :> 7)
islower(token) == token \in (DOMAIN FileLetter) \cup {"k", "q", "n", "p", "r", "w"}
toupper(token) ==
    CASE token = "k" -> "K" [] token = "q" -> "Q"
      [] token \in DOMAIN FileLetter ->
            (CHOOSE u \in DOMAIN FileLetterUpper : FileLetterUpper[u] = FileLetter[token])
      [] OTHER -> token

\* memset(si, 0, sizeof(StateInfo)): every field zero (epSquare = SQ_A1)
ZeroStateInfo ==
    [pawnKey |-> {}, materialKey |-> {}, nonPawnMaterial |-> [c \in Colors |-> 0],
     psq |-> SCORE_ZERO, castlingRights |-> {}, rule50 |-> 0,
     pliesFromNull |-> 0, epSquare |-> SQ_A1, key |-> {}, checkersBB |-> {},
     capturedPiece |-> NO_PIECE,
     blockersForKing |-> [c \in Colors |-> {}],
     pinnersForKing |-> [c \in Colors |-> {}],
     checkSquares |-> [pt \in PieceTypes |-> {}]]

\* memset(this, 0, sizeof(Position)); fill_n(pieceList, SQ_NONE); st = si
ZeroPosition ==
    [board |-> [s \in Squares |-> NO_PIECE],
     byTypeBB |-> [pt \in ALL_PIECES..KING |-> {}],
     byColorBB |-> [c \in Colors |-> {}],
     pieceCount |-> [pc \in 0..(PIECE_NB - 1) |-> 0],
     pieceList |-> [pc \in 0..(PIECE_NB - 1) |-> [i \in 0..15 |-> SQ_NONE]],
     index |-> [s \in Squares |-> 0],
     castlingRightsMask |-> [s \in Squares |-> {}],
     castlingRookSquare |-> [cr \in CastlingRights |-> SQ_A1],
     castlingPath |-> [cr \in CastlingRights |-> {}],
     sideToMove |-> WHITE, gamePly |-> 0, nodes |-> 0, chess960 |-> FALSE,
     states |-> <<ZeroStateInfo>>]

\* 1. Piece placement
RECURSIVE SetPlacement(_, _, _)
SetPlacement(P, toks, sq) ==
    IF toks = <<>> THEN P
    ELSE LET token == Head(toks) IN
         IF isdigit(token) THEN SetPlacement(P, Tail(toks), sq + DigitValue[token])
         ELSE IF token = "/" THEN SetPlacement(P, Tail(toks), sq - 16)
         ELSE IF PieceToCharFind(token) # npos
              THEN SetPlacement(put_piece(P, PieceToCharFind(token), sq), Tail(toks), sq + 1)
         ELSE SetPlacement(P, Tail(toks), sq)

set_castling_right(P, c, kfrom, rfrom) ==
    LET cs == IF kfrom < rfrom THEN KING_SIDE ELSE QUEEN_SIDE
        cr == castling_right(c, cs)
        kto == relative_square(c, IF cs = KING_SIDE THEN SQ_G1 ELSE SQ_C1)
        rto == relative_square(c, IF cs = KING_SIDE THEN SQ_F1 ELSE SQ_D1)
        path == {s \in (Min(rfrom, rto)..Max(rfrom, rto)) \cup (Min(kfrom, kto)..Max(kfrom, kto)) :
                    s # kfrom /\ s # rfrom} IN
    [P EXCEPT !.states[Len(P.states)].castlingRights = @ \cup {cr},
              !.castlingRightsMask[kfrom] = @ \cup {cr},
              !.castlingRightsMask[rfrom] = @ \cup {cr},
              !.castlingRookSquare[cr] = rfrom,
              !.castlingPath[cr] = @ \cup path]

\* 3. Castling availability
RECURSIVE SetCastling(_, _)
SetCastling(P, toks) ==
    IF toks = <<>> THEN P
    ELSE LET tok0 == Head(toks)
             c == IF islower(tok0) THEN BLACK ELSE WHITE
             rank == IF c = WHITE THEN RANK_1 ELSE RANK_8
             ksq == square_king(P, c)
             rook == make_piece(c, ROOK)
             token == toupper(tok0)
             stop(rsq) == rsq = ksq \/ piece_on(P, rsq) = rook
             rsqK == CHOOSE r \in Squares :
                        /\ r <= relative_square(c, SQ_H1) /\ stop(r)
                        /\ \A q \in (r + 1)..relative_square(c, SQ_H1) : ~stop(q)
             rsqQ == CHOOSE r \in Squares :
                        /\ r >= relative_square(c, SQ_A1) /\ stop(r)
                        /\ \A q \in relative_square(c, SQ_A1)..(r - 1) : ~stop(q)
             known == token \in {"K", "Q"} \cup DOMAIN FileLetterUpper
             rsq == CASE token = "K" -> rsqK
                      [] token = "Q" -> rsqQ
                      [] OTHER -> make_square(FileLetterUpper[token], rank) IN
         IF rank_of(ksq) # rank \/ ~known THEN SetCastling(P, Tail(toks))
         ELSE IF rsq # ksq THEN SetCastling(set_castling_right(P, c, ksq, rsq), Tail(toks))
         ELSE SetCastling(P, Tail(toks))

\* 4. En passant square. Ignore if no pawn capture is possible
SetEnPassant(P, ep) ==
    LET stm == P.sideToMove
        ok == /\ Len(ep) = 2 /\ ep[1] \in DOMAIN FileLetter
              /\ ep[2] = (IF stm = BLACK THEN "3" ELSE "6")
        sq == make_square(FileLetter[ep[1]], DigitValue[ep[2]] - 1)
        north == IF rank_of(sq) < 7 THEN {sq + 8} ELSE {}
        south == IF rank_of(sq) > 0 THEN {sq - 8} ELSE {}
        drop ==
            \/ (attackers_to(P, sq) \cap pieces_cpt(P, stm, PAWN)) = {}
            \/ (pieces_cpt(P, Opp(stm), PAWN) \cap {sq + pawn_push(Opp(stm))}) = {}
            \/ sq \in pieces(P)
            \/ (stm = WHITE /\ (north \cap pieces(P)) # {})
            \/ (stm = BLACK /\ (south \cap pieces(P)) # {})
            \/ (stm = WHITE /\ (south \cap pieces_cpt(P, BLACK, PAWN)) = {})
            \/ (stm = BLACK /\ (north \cap pieces_cpt(P, WHITE, PAWN)) = {}) IN
    [P EXCEPT !.states[Len(P.states)].epSquare = IF ok /\ ~drop THEN sq ELSE SQ_NONE]

\* variant: the halfmove clock goes to pliesFromNull as well
set_halfmove_clock_both(P, hm) ==
    [P EXCEPT !.states[1].rule50 = hm, !.states[1].pliesFromNull = hm]

\* ss >> st->rule50: the halfmove clock; pliesFromNull stays as memset left it
set_halfmove_clock(P, hm) == [P EXCEPT !.states[1].rule50 = hm]

set(fenStr, isChess960) ==
    LET P1 == SetPlacement(ZeroPosition, fenStr.pl, SQ_A8)
        P2 == [P1 EXCEPT !.sideToMove = IF fenStr.stm = "w" THEN WHITE ELSE BLACK]
        P3 == SetCastling(P2, fenStr.ca)
        P4 == SetEnPassant(P3, fenStr.ep)
        P5 == [set_halfmove_clock(P4, fenStr.hm) EXCEPT
                         !.gamePly = Max(2 * (fenStr.fm - 1), 0)
                                     + (IF P4.sideToMove = BLACK THEN 1 ELSE 0),
                         !.chess960 = isChess960] IN
    [P5 EXCEPT !.states[1] = set_state(P5, P5.states[1])]

---------------------------------------------------------------------------
(* Position::fen(): the position string, field by field as set() takes it  *)

\* ss << emptyCnt, and the characters of UCI::square and of the castling tags
DigitChar == <<"1", "2", "3", "4", "5", "6", "7", "8">>
FileChar == <<"a", "b", "c", "d", "e", "f", "g", "h">>
FileCharUpper == <<"A", "B", "C", "D", "E", "F", "G", "H">>

\* UCI::square(s)
UciSquare(sq) == <<FileChar[file_of(sq) + 1], DigitChar[rank_of(sq) + 1]>>

\* the loop over the files of the rank r, from the file f on, emptyCnt empty
\* squares having been passed
RECURSIVE fen_rank(_, _, _, _)
fen_rank(P, r, f, emptyCnt) ==
    LET count == IF emptyCnt > 0 THEN <<DigitChar[emptyCnt]>> ELSE <<>> IN
    IF f > 7 THEN count
    ELSE IF empty(P, make_square(f, r)) THEN fen_rank(P, r, f + 1, emptyCnt + 1)
    ELSE count \o <<PieceToChar[piece_on(P, make_square(f, r)) + 1]>> \o fen_rank(P, r, f + 1, 0)

\* the loop over the ranks, from the rank r down
RECURSIVE fen_placement(_, _)
fen_placement(P, r) ==
    fen_rank(P, r, 0, 0) \o (IF r > RANK_1 THEN <<"/">> \o fen_placement(P, r - 1) ELSE <<>>)

\* the castling tags
fen_castling(P) ==
    LET tag(cr, plain, letters) ==
            IF can_castle(P, cr)
            THEN <<IF P.chess960 THEN letters[file_of(P.castlingRookSquare[cr]) + 1] ELSE plain>>
            ELSE <<>>
        tags == tag(WHITE_OO, "K", FileCharUpper) \o tag(WHITE_OOO, "Q", FileCharUpper)
                \o tag(BLACK_OO, "k", FileChar) \o tag(BLACK_OOO, "q", FileChar) IN
    IF St(P).castlingRights = {} THEN <<"-">> ELSE tags

\* variant: the en-passant field is never written
fen_ep_none(P) == <<"-">>

\* the en-passant field
fen_ep(P) == IF ep_square(P) = SQ_NONE THEN <<"-">> ELSE UciSquare(ep_square(P))

fen(P) ==
    [pl |-> fen_placement(P, RANK_8),
     stm |-> IF P.sideToMove = WHITE THEN "w" ELSE "b",
     ca |-> fen_castling(P),
     ep |-> fen_ep(P),
     hm |-> St(P).rule50,
     fm |-> 1 + (P.gamePly - (IF P.sideToMove = BLACK THEN 1 ELSE 0)) \div 2]

---------------------------------------------------------------------------
(* do_move, undo_move, do_castling, do_null_move, undo_null_move *)

RECURSIVE BitXor(_, _)
BitXor(a, b) == IF a = 0 THEN b ELSE IF b = 0 THEN a
                ELSE ((a + b) % 2) + 2 * BitXor(a \div 2, b \div 2)

\* variant: the king is moved, then the rook, each with move_piece
do_castling_one_by_one(Do, P, us, from, to) ==
    LET kingSide == to > from
        rfrom == to
        rto == relative_square(us, IF kingSide THEN SQ_F1 ELSE SQ_D1)
        kto == relative_square(us, IF kingSide THEN SQ_G1 ELSE SQ_C1)
        P1 == move_piece(P, make_piece(us, KING),
                         IF Do THEN from ELSE kto, IF Do THEN kto ELSE from)
        P2 == move_piece(P1, make_piece(us, ROOK),
                         IF Do THEN rfrom ELSE rto, IF Do THEN rto ELSE rfrom) IN
    [P |-> P2, to |-> kto, rfrom |-> rfrom, rto |-> rto]

\* variant: only the square the king has left is emptied
do_castling_clear_king_only(P, ksq, rsq) == [P EXCEPT !.board[ksq] = NO_PIECE]

\* board[Do ? from : to] = board[Do ? rfrom : rto] = NO_PIECE
do_castling_clear(P, ksq, rsq) ==
    [P EXCEPT !.board = [[@ EXCEPT ![ksq] = NO_PIECE] EXCEPT ![rsq] = NO_PIECE]]

\* do_castling<Do>(us, from, to, rfrom, rto): the position, and the values
\* it leaves in its reference parameters to, rfrom and rto
do_castling(Do, P, us, from, to) ==
    LET kingSide == to > from
        rfrom == to
        rto == relative_square(us, IF kingSide THEN SQ_F1 ELSE SQ_D1)
        kto == relative_square(us, IF kingSide THEN SQ_G1 ELSE SQ_C1)
        P1 == remove_piece(P, make_piece(us, KING), IF Do THEN from ELSE kto)
        P2 == remove_piece(P1, make_piece(us, ROOK), IF Do THEN rfrom ELSE rto)
        P3 == do_castling_clear(P2, IF Do THEN from ELSE kto, IF Do THEN rfrom ELSE rto)
        P4 == put_piece(P3, make_piece(us, KING), IF Do THEN kto ELSE from)
        P5 == put_piece(P4, make_piece(us, ROOK), IF Do THEN rto ELSE rfrom) IN
    [P |-> P5, to |-> kto, rfrom |-> rfrom, rto |-> rto]

\* the square the captured piece is taken from
do_move_capsq(m, us, to) ==
    IF move_type(m) = ENPASSANT THEN to - pawn_push(us) ELSE to

\* variant: board[capsq] is left as it is
do_move_clear_capsq_never(P, m, capsq) == P

\* en passant: board[capsq] = NO_PIECE, which remove_piece does not do
do_move_clear_capsq(P, m, capsq) ==
    IF move_type(m) = ENPASSANT THEN [P EXCEPT !.board[capsq] = NO_PIECE] ELSE P

\* variant: a pawn move does not reset the counter
do_move_rule50_capture_only(rule50, captured, pc) ==
    IF captured # NO_PIECE THEN 0 ELSE rule50 + 1

\* rule50 of the new state: incremented, reset by a capture or a pawn move
do_move_rule50(rule50, captured, pc) ==
    IF captured # NO_PIECE \/ type_of(pc) = PAWN THEN 0 ELSE rule50 + 1

\* variant: a move touching a marked square takes every right away
do_move_castling_rights_all(castlingRights, cr) == IF cr = {} THEN castlingRights ELSE {}

\* the castling rights left, for the mask of the origin and the destination
do_move_castling_rights(castlingRights, cr) == castlingRights \ cr

\* variant: the origin square is not taken out of the key
do_move_piece_key_to_only(k, pc, from, to) == XOR(k, ZobristPsq(pc, to))

\* the moved piece's part of the key update
do_move_piece_key(k, pc, from, to) ==
    XOR(k, XOR(ZobristPsq(pc, from), ZobristPsq(pc, to)))

\* variant: the key keeps the castling rights it had
do_move_castling_key_kept(k, castlingRights, cr) == k

\* the castling part of the key update
do_move_castling_key(k, castlingRights, cr) ==
    IF castlingRights # {} /\ cr # {} THEN XOR(k, ZobristCastling(castlingRights \cap cr))
    ELSE k

\* variant: every double push sets the en-passant square
do_move_ep_square_any_double_push(P, us, from, to) ==
    IF BitXor(to, from) = 16 THEN (from + to) \div 2 ELSE SQ_NONE

\* the en-passant square a pawn move sets (SQ_NONE when it sets none):
\* P is the position with the pawn already moved
do_move_ep_square(P, us, from, to) ==
    IF /\ BitXor(to, from) = 16
       /\ (attacks_from_pawn(to - pawn_push(us), us) \cap pieces_cpt(P, Opp(us), PAWN)) # {}
    THEN (from + to) \div 2 ELSE SQ_NONE

\* variant: the checkers are worked out whatever the caller says
do_move_checkers_recomputed(P, givesCheck, us) ==
    attackers_to(P, square_king(P, Opp(us))) \cap pieces_c(P, us)

\* checkersBB of the new state, from the caller's givesCheck
do_move_checkers(P, givesCheck, us) ==
    IF givesCheck THEN attackers_to(P, square_king(P, Opp(us))) \cap pieces_c(P, us) ELSE {}

\* variant: a promotion makes a second king
do_move_promotion_king(us, m) == make_piece(us, KING)

\* the piece a promotion puts on the board
do_move_promotion(us, m) == make_piece(us, promotion_type(m))

do_move(P, m, givesCheck) ==
    LET st0 == St(P)
        k0 == XOR(st0.key, ZobristSide)
        us == P.sideToMove
        them == Opp(us)
        from == from_sq(m)
        pc == piece_on(P, from)
        captured0 == IF move_type(m) = ENPASSANT THEN make_piece(them, PAWN)
                     ELSE piece_on(P, to_sq(m))
        castle == move_type(m) = CASTLING
        \* if (type_of(m) == CASTLING)
        cas == do_castling(TRUE, P, us, from, to_sq(m))
        Pa == IF castle THEN cas.P ELSE P
        to == IF castle THEN cas.to ELSE to_sq(m)
        ka == IF castle THEN XOR(k0, XOR(ZobristPsq(captured0, cas.rfrom),
                                         ZobristPsq(captured0, cas.rto)))
              ELSE k0
        psqA == IF castle
                THEN ScoreAdd(ScoreAdd(st0.psq, PsqtPsq(captured0, cas.rto), 1),
                              PsqtPsq(captured0, cas.rfrom), -1)
                ELSE st0.psq
        captured == IF castle THEN NO_PIECE ELSE captured0
        \* if (captured)
        capsq == do_move_capsq(m, us, to)
        Pb == IF captured # NO_PIECE
              THEN remove_piece(do_move_clear_capsq(Pa, m, capsq), captured, capsq)
              ELSE Pa
        pawnKeyB == IF captured # NO_PIECE /\ type_of(captured) = PAWN
                    THEN XOR(st0.pawnKey, ZobristPsq(captured, capsq)) ELSE st0.pawnKey
        kb == IF captured # NO_PIECE THEN XOR(ka, ZobristPsq(captured, capsq)) ELSE ka
        materialKeyB == IF captured # NO_PIECE
                        THEN XOR(st0.materialKey, ZobristPsq(captured, Pb.pieceCount[captured]))
                        ELSE st0.materialKey
        npmB == IF captured # NO_PIECE /\ type_of(captured) # PAWN
                THEN [st0.nonPawnMaterial EXCEPT ![them] = @ - PieceValue(captured)]
                ELSE st0.nonPawnMaterial
        \* Update incremental scores
        psqB == IF captured # NO_PIECE THEN ScoreAdd(psqA, PsqtPsq(captured, capsq), -1)
                ELSE psqA
        \* Update hash key
        kc == do_move_piece_key(kb, pc, from, to)
        \* Reset en passant square
        kd == IF st0.epSquare # SQ_NONE
              THEN XOR(kc, ZobristEnpassant(file_of(st0.epSquare))) ELSE kc
        \* Update castling rights if needed
        cr == P.castlingRightsMask[from] \cup P.castlingRightsMask[to]
        ke == do_move_castling_key(kd, st0.castlingRights, cr)
        \* Move the piece
        Pc == IF ~castle THEN move_piece(Pb, pc, from, to) ELSE Pb
        \* If the moving piece is a pawn do some special extra work
        pawn == type_of(pc) = PAWN
        epSquare == IF pawn THEN do_move_ep_square(Pc, us, from, to) ELSE SQ_NONE
        promo == pawn /\ epSquare = SQ_NONE /\ move_type(m) = PROMOTION
        promotion == do_move_promotion(us, m)
        Pd == IF promo THEN put_piece(remove_piece(Pc, pc, to), promotion, to) ELSE Pc
        kf == IF epSquare # SQ_NONE THEN XOR(ke, ZobristEnpassant(file_of(epSquare)))
              ELSE IF promo THEN XOR(ke, XOR(ZobristPsq(pc, to), ZobristPsq(promotion, to)))
              ELSE ke
        pawnKeyD == IF promo THEN XOR(pawnKeyB, ZobristPsq(pc, to)) ELSE pawnKeyB
        pawnKeyE == IF pawn THEN XOR(pawnKeyD, XOR(ZobristPsq(pc, from), ZobristPsq(pc, to)))
                    ELSE pawnKeyD
        materialKeyD == IF promo
                        THEN XOR(materialKeyB,
                                 XOR(ZobristPsq(promotion, Pd.pieceCount[promotion] - 1),
                                     ZobristPsq(pc, Pd.pieceCount[pc])))
                        ELSE materialKeyB
        psqD == IF promo
                THEN ScoreAdd(ScoreAdd(psqB, PsqtPsq(promotion, to), 1), PsqtPsq(pc, to), -1)
                ELSE psqB
        npmD == IF promo THEN [npmB EXCEPT ![us] = @ + PieceValue(promotion)] ELSE npmB
        \* Update incremental scores
        psqE == ScoreAdd(ScoreAdd(psqD, PsqtPsq(pc, to), 1), PsqtPsq(pc, from), -1)
        \* the new StateInfo: the fields before `key` are copied from *st and
        \* updated, the others are assigned
        newSt == [st0 EXCEPT !.pawnKey = pawnKeyE,
                             !.materialKey = materialKeyD,
                             !.nonPawnMaterial = npmD,
                             !.psq = psqE,
                             !.castlingRights = do_move_castling_rights(st0.castlingRights, cr),
                             !.rule50 = do_move_rule50(st0.rule50, captured, pc),
                             !.pliesFromNull = st0.pliesFromNull + 1,
                             !.epSquare = epSquare,
                             !.capturedPiece = captured,
                             !.key = kf,
                             !.checkersBB = do_move_checkers(Pd, givesCheck, us)]
        Pe == [Pd EXCEPT !.nodes = @ + 1, !.gamePly = @ + 1, !.sideToMove = them] IN
    [Pe EXCEPT !.states = Append(P.states, set_check_info(Pe, newSt))]

\* variant: the captured pawn of an en-passant capture is put back on `to`
undo_move_capsq_on_to(m, us, to) == to

\* the square a captured piece is put back on
undo_move_capsq(m, us, to) ==
    IF move_type(m) = ENPASSANT THEN to - pawn_push(us) ELSE to

\* variant: the record that becomes the top again loses its captured piece
undo_move_previous_captured_cleared(P) ==
    LET below == SubSeq(P.states, 1, Len(P.states) - 1) IN
    [below EXCEPT ![Len(below)].capturedPiece = NO_PIECE]

\* st = st->previous: the chain without its top record
undo_move_previous(P) == SubSeq(P.states, 1, Len(P.states) - 1)

undo_move(P, m) ==
    LET st0 == St(P)
        us == Opp(P.sideToMove)
        from == from_sq(m)
        to == to_sq(m)
        pc0 == piece_on(P, to)
        \* if (type_of(m) == PROMOTION)
        promo == move_type(m) = PROMOTION
        pc == IF promo THEN make_piece(us, PAWN) ELSE pc0
        Pa == IF promo THEN put_piece(remove_piece(P, pc0, to), pc, to) ELSE P
        \* if (type_of(m) == CASTLING) ... else
        Pb == IF move_type(m) = CASTLING THEN do_castling(FALSE, Pa, us, from, to).P
              ELSE LET Pm == move_piece(Pa, pc, to, from) IN
                   IF st0.capturedPiece # NO_PIECE
                   THEN put_piece(Pm, st0.capturedPiece, undo_move_capsq(m, us, to))
                   ELSE Pm IN
    \* Finally point our state pointer back to the previous state
    [Pb EXCEPT !.sideToMove = us,
               !.states = undo_move_previous(P),
               !.gamePly = @ - 1]

\* variant: the en-passant draw stays in the key
do_null_move_key_side_only(st0) == XOR(st0.key, ZobristSide)

\* the key of the state a null move pushes
do_null_move_key(st0) ==
    LET k1 == IF st0.epSquare # SQ_NONE
              THEN XOR(st0.key, ZobristEnpassant(file_of(st0.epSquare))) ELSE st0.key IN
    XOR(k1, ZobristSide)

\* variant: the null move counts as a ply of the game
do_null_move_ply_counted(P) ==
    LET st0 == St(P)
        newSt == [st0 EXCEPT !.key = do_null_move_key(st0),
                             !.epSquare = SQ_NONE,
                             !.rule50 = @ + 1,
                             !.pliesFromNull = 0]
        P1 == [P EXCEPT !.sideToMove = Opp(P.sideToMove), !.gamePly = @ + 1] IN
    [P1 EXCEPT !.states = Append(P.states, set_check_info(P1, newSt))]

\* variant: the fifty-move counter is counted up before the state pointer
\* is switched, in the old record as well
do_null_move_frame_old_counted(P, newSt) ==
    Append([P.states EXCEPT ![Len(P.states)].rule50 = @ + 1], newSt)

\* newSt.previous = st; st = &newSt: the caller's record goes on top of the
\* chain, the records below stay as they are
do_null_move_frame(P, newSt) == Append(P.states, newSt)

do_null_move(P) ==
    LET st0 == St(P)
        newSt == [st0 EXCEPT !.key = do_null_move_key(st0),
                             !.epSquare = SQ_NONE,
                             !.rule50 = @ + 1,
                             !.pliesFromNull = 0]
        P1 == [P EXCEPT !.sideToMove = Opp(P.sideToMove)] IN
    [P1 EXCEPT !.states = do_null_move_frame(P, set_check_info(P1, newSt))]

\* variant: the side to move is left as the null move set it
undo_null_move_side_kept(P) ==
    [P EXCEPT !.states = SubSeq(P.states, 1, Len(P.states) - 1)]

undo_null_move(P) ==
    [P EXCEPT !.states = SubSeq(P.states, 1, Len(P.states) - 1),
              !.sideToMove = Opp(P.sideToMove)]

\* variant: the captured piece stays in the key
key_after_capture_kept(P, m) ==
    LET from == from_sq(m)
        to == to_sq(m)
        pc == piece_on(P, from) IN
    XOR(XOR(XOR(St(P).key, ZobristSide), ZobristPsq(pc, to)), ZobristPsq(pc, from))

\* key_after(m): the key after m, for the prefetch
key_after(P, m) ==
    LET from == from_sq(m)
        to == to_sq(m)
        pc == piece_on(P, from)
        captured == piece_on(P, to)
        k0 == XOR(St(P).key, ZobristSide)
        k1 == IF captured # NO_PIECE THEN XOR(k0, ZobristPsq(captured, to)) ELSE k0 IN
    XOR(XOR(k1, ZobristPsq(pc, to)), ZobristPsq(pc, from))

---------------------------------------------------------------------------
(* legal, gives_check *)

\* variant: an en-passant capture is taken to be legal
legal_enpassant_always(P, us, from, to) == TRUE

\* en-passant captures: the king must not be attacked by a slider once both
\* pawns have left their squares
legal_enpassant(P, us, from, to) ==
    LET them == Opp(us)
        ksq == square_king(P, us)
        capsq == to - pawn_push(us)
        occupied == XOR(XOR(pieces(P), {from}), {capsq}) \cup {to} IN
    /\ (attacks_bb_rook(ksq, occupied) \cap pieces_cpt2(P, them, QUEEN, ROOK)) = {}
    /\ (attacks_bb_bishop(ksq, occupied) \cap pieces_cpt2(P, them, QUEEN, BISHOP)) = {}

\* a piece other than the king: not pinned, or moving along the ray towards
\* or away from the king
legal_pinned(P, us, from, to, ksq) ==
    from \notin pinned_pieces(P, us) \/ aligned(from, to, ksq)

legal(P, m) ==
    LET us == P.sideToMove
        them == Opp(us)
        from == from_sq(m)
        to == to_sq(m)
        ksq == square_king(P, us) IN
    IF move_type(m) = ENPASSANT THEN legal_enpassant(P, us, from, to)
    ELSE IF type_of(piece_on(P, from)) = KING
    THEN move_type(m) = CASTLING \/ (attackers_to(P, to) \cap pieces_c(P, them)) = {}
    ELSE legal_pinned(P, us, from, to, ksq)

\* variant: an en-passant capture discovers no check
gives_check_enpassant_never(P, us, from, to) == FALSE

\* en passant: a check discovered through the square of the captured pawn
gives_check_enpassant(P, us, from, to) ==
    LET ksq == square_king(P, Opp(us))
        capsq == make_square(file_of(to), rank_of(from))
        b == XOR(XOR(pieces(P), {from}), {capsq}) \cup {to} IN
    ((attacks_bb_rook(ksq, b) \cap pieces_cpt2(P, us, QUEEN, ROOK))
     \cup (attacks_bb_bishop(ksq, b) \cap pieces_cpt2(P, us, QUEEN, BISHOP))) # {}

gives_check(P, m) ==
    LET us == P.sideToMove
        them == Opp(us)
        from == from_sq(m)
        to == to_sq(m)
        ksq == square_king(P, them) IN
    \* Is there a direct check?
    IF to \in St(P).checkSquares[type_of(piece_on(P, from))] THEN TRUE
    \* Is there a discovered check?
    ELSE IF from \in discovered_check_candidates(P) /\ ~aligned(from, to, ksq) THEN TRUE
    ELSE CASE move_type(m) = NORMAL -> FALSE
           [] move_type(m) = PROMOTION ->
                ksq \in attacks_bb(promotion_type(m), to, XOR(pieces(P), {from}))
           [] move_type(m) = ENPASSANT -> gives_check_enpassant(P, us, from, to)
           [] move_type(m) = CASTLING ->
                LET kfrom == from
                    rfrom == to
                    kto == relative_square(us, IF rfrom > kfrom THEN SQ_G1 ELSE SQ_C1)
                    rto == relative_square(us, IF rfrom > kfrom THEN SQ_F1 ELSE SQ_D1) IN
                /\ ksq \in PseudoAttacksRook[rto]
                /\ ksq \in attacks_bb_rook(rto, XOR(XOR(pieces(P), {kfrom}), {rfrom})
                                                 \cup {rto} \cup {kto})

---------------------------------------------------------------------------
(* The move generator (movegen.cpp): generate<NON_EVASIONS> when the side  *)
(* to move is not in check, generate<EVASIONS> when it is, and             *)
(* MoveList<LEGAL>, the generated moves that pass legal().                 *)

PromotionTypes == {KNIGHT, BISHOP, ROOK, QUEEN}

\* pawn moves of the pawn on `from` whose destination lies in `target`
generate_pawn_moves(P, us, from, target) ==
    LET up == pawn_push(us)
        one == from + up
        pushes == IF empty(P, one)
                  THEN {one} \cup (IF relative_rank(us, from) = RANK_2 /\ empty(P, one + up)
                                   THEN {one + up} ELSE {})
                  ELSE {}
        caps == attacks_from_pawn(from, us) \cap pieces_c(P, Opp(us))
        dests == (pushes \cup caps) \cap target
        ep == ep_square(P)
        eps == IF ep # SQ_NONE /\ ep \in attacks_from_pawn(from, us)
                  /\ (checkers(P) = {} \/ (ep - up) \in target)
               THEN {make_special(ENPASSANT, from, ep, KNIGHT)} ELSE {} IN
    {make_move(from, to) : to \in {t \in dests : relative_rank(us, t) # RANK_8}}
    \cup {make_special(PROMOTION, from, to, pt) :
            to \in {t \in dests : relative_rank(us, t) = RANK_8}, pt \in PromotionTypes}
    \cup eps

\* castling: the right is held, the path is free, the squares the king
\* crosses are not attacked, and (Chess960) the rook does not shield the king
generate_castling(P, us, cr) ==
    LET kfrom == square_king(P, us)
        rfrom == P.castlingRookSquare[cr]
        kingSide == cr \in {WHITE_OO, BLACK_OO}
        kto == relative_square(us, IF kingSide THEN SQ_G1 ELSE SQ_C1)
        enemies == pieces_c(P, Opp(us))
        crossed == (Min(kfrom, kto)..Max(kfrom, kto)) \ {kfrom} IN
    IF /\ can_castle(P, cr) /\ ~castling_impeded(P, cr) /\ checkers(P) = {}
       /\ \A s \in crossed : (attackers_to(P, s) \cap enemies) = {}
       /\ (P.chess960 =>
             (attacks_bb_rook(kto, XOR(pieces(P), {rfrom}))
              \cap pieces_cpt2(P, Opp(us), ROOK, QUEEN)) = {})
    THEN {make_special(CASTLING, kfrom, rfrom, KNIGHT)} ELSE {}

generate(P) ==
    LET us == P.sideToMove
        them == Opp(us)
        ksq == square_king(P, us)
        chk == checkers(P)
        \* EVASIONS: squares on the line of a checking slider, behind the king too
        sliderAttacks == UNION {LineBB[c][ksq] \ {c} :
                                  c \in chk \ pieces_pt2(P, KNIGHT, PAWN)}
        target == IF chk = {} THEN Squares \ pieces_c(P, us)
                  ELSE IF more_than_one(chk) THEN {}
                  ELSE between_bb(lsb(chk), ksq) \cup chk
        kingMoves == {make_move(ksq, to) :
                        to \in (KingAttacks[ksq] \ pieces_c(P, us)) \ sliderAttacks}
        pieceMoves == UNION {{make_move(from, to) :
                                to \in attacks_from(P, piece_on(P, from), from) \cap target} :
                             from \in pieces_c(P, us) \ pieces_pt2(P, PAWN, KING)}
        pawnMoves == UNION {generate_pawn_moves(P, us, from, target) :
                              from \in pieces_cpt(P, us, PAWN)}
        castlings == UNION {generate_castling(P, us, castling_right(us, cs)) :
                              cs \in {KING_SIDE, QUEEN_SIDE}} IN
    kingMoves \cup pieceMoves \cup pawnMoves \cup castlings

MoveListLegal(P) == {m \in generate(P) : legal(P, m)}

---------------------------------------------------------------------------
(* pseudo_legal, is_draw *)

\* is_variant_end() (position.h): standard chess has no end of this kind
is_variant_end(P) == FALSE

\* variant: a move made in check is not looked at any further
pseudo_legal_evasion_any(P, us, from, to, pc) == TRUE

\* if (checkers()): the move must have the shape of an evasion
pseudo_legal_evasion(P, us, from, to, pc) ==
    IF type_of(pc) # KING
    THEN \* Double check? In this case a king move is required
         /\ ~more_than_one(checkers(P))
         \* Our move must be a blocking evasion or a capture of the checking piece
         /\ to \in (between_bb(lsb(checkers(P)), square_king(P, us)) \cup checkers(P))
    ELSE (attackers_to_occ(P, to, XOR(pieces(P), {from})) \cap pieces_c(P, Opp(us))) = {}

pseudo_legal(P, m) ==
    LET us == P.sideToMove
        them == Opp(us)
        from == from_sq(m)
        to == to_sq(m)
        pc == moved_piece(P, m)
        up == pawn_push(us) IN
    \* If the game is already won or lost, further moves are illegal
    IF is_variant_end(P) THEN FALSE
    \* Use a slower but simpler function for uncommon cases
    ELSE IF move_type(m) # NORMAL THEN m \in MoveListLegal(P)
    \* Is not a promotion, so promotion piece must be empty
    ELSE IF promotion_type(m) - KNIGHT # NO_PIECE_TYPE THEN FALSE
    ELSE IF pc = NO_PIECE \/ color_of(pc) # us THEN FALSE
    \* The destination square cannot be occupied by a friendly piece
    ELSE IF to \in pieces_c(P, us) THEN FALSE
    ELSE IF type_of(pc) = PAWN /\ rank_of(to) = (IF us = WHITE THEN RANK_8 ELSE RANK_1)
    THEN FALSE
    ELSE IF /\ type_of(pc) = PAWN
            /\ to \notin (attacks_from_pawn(from, us) \cap pieces_c(P, them))
            /\ ~(from + up = to /\ empty(P, to))
            /\ ~(/\ from + 2 * up = to
                 /\ rank_of(from) = (IF us = WHITE THEN RANK_2 ELSE 7 - RANK_2)
                 /\ empty(P, to)
                 /\ empty(P, to - up))
    THEN FALSE
    ELSE IF type_of(pc) # PAWN /\ to \notin attacks_from(P, pc, from) THEN FALSE
    ELSE IF checkers(P) # {} THEN pseudo_legal_evasion(P, us, from, to, pc)
    ELSE TRUE

\* variant: a repetition at the root itself counts as one after the root
RECURSIVE is_draw_loop_root_included(_, _, _, _, _)
is_draw_loop_root_included(P, ply, end, i, cnt) ==
    IF i > end THEN FALSE
    ELSE LET stp == P.states[Len(P.states) - i] IN
         IF stp.key = St(P).key
         THEN IF (cnt + 1) + (IF ply - i >= 0 THEN 1 ELSE 0) = 2 THEN TRUE
              ELSE is_draw_loop_root_included(P, ply, end, i + 2, cnt + 1)
         ELSE is_draw_loop_root_included(P, ply, end, i + 2, cnt)

\* the loop of is_draw from step i on, cnt matches found so far
RECURSIVE is_draw_loop(_, _, _, _, _)
is_draw_loop(P, ply, end, i, cnt) ==
    IF i > end THEN FALSE
    ELSE LET stp == P.states[Len(P.states) - i] IN
         IF stp.key = St(P).key
         THEN IF (cnt + 1) + (IF ply - i > 0 THEN 1 ELSE 0) = 2 THEN TRUE
              ELSE is_draw_loop(P, ply, end, i + 2, cnt + 1)
         ELSE is_draw_loop(P, ply, end, i + 2, cnt)

\* variant: checkmate is not looked at
is_draw_not_mated_skipped(P) == TRUE

\* the side to move is not checkmated: !checkers() || MoveList<LEGAL>(*this).size()
is_draw_not_mated(P) == checkers(P) = {} \/ MoveListLegal(P) # {}

\* variant: the clause waits for one more halfmove
is_draw_rule50_above_100(P) == St(P).rule50 > 100 /\ is_draw_not_mated(P)

\* the fifty-move clause
is_draw_rule50(P) == St(P).rule50 > 99 /\ is_draw_not_mated(P)

is_draw(P, ply) ==
    IF is_draw_rule50(P) THEN TRUE
    ELSE LET end == Min(St(P).rule50, St(P).pliesFromNull) IN
         IF end < 4 THEN FALSE
         ELSE is_draw_loop(P, ply, end, 4, 0)

---------------------------------------------------------------------------
(* min_attacker, see_ge *)

\* variant: no attacker is found behind the one that has left
min_attacker_xray_none(P, Pt, to, occupied) == {}

\* the X-ray attackers min_attacker<Pt> adds once the attacker has left
min_attacker_xray(P, Pt, to, occupied) ==
    (IF Pt \in {PAWN, BISHOP, QUEEN}
     THEN attacks_bb_bishop(to, occupied) \cap pieces_pt2(P, BISHOP, QUEEN) ELSE {})
    \cup (IF Pt \in {ROOK, QUEEN}
          THEN attacks_bb_rook(to, occupied) \cap pieces_pt2(P, ROOK, QUEEN) ELSE {})

\* variant: the least valuable attacker is found and stays where it is
min_attacker_kept(P, Pt, to, stmAttackers, occupied, attackers) ==
    LET types == {type_of(piece_on(P, a)) : a \in stmAttackers} IN
    [pt |-> CHOOSE t \in types : \A u \in types : t <= u,
     occupied |-> occupied, attackers |-> attackers]

\* min_attacker<Pt>(byTypeBB, to, stmAttackers, occupied, attackers): the
\* type found, with occupied and attackers as the call leaves them
RECURSIVE min_attacker(_, _, _, _, _, _)
min_attacker(P, Pt, to, stmAttackers, occupied, attackers) ==
    IF Pt = KING THEN [pt |-> KING, occupied |-> occupied, attackers |-> attackers]
    ELSE LET b == stmAttackers \cap pieces_pt(P, Pt) IN
         IF b = {} THEN min_attacker(P, Pt + 1, to, stmAttackers, occupied, attackers)
         ELSE LET occ == XOR(occupied, {lsb(b)}) IN
              [pt |-> Pt, occupied |-> occ,
               attackers |-> (attackers \cup min_attacker_xray(P, Pt, to, occ)) \cap occ]

\* variant: the pinned attackers stay out whatever has become of the pinners
see_ge_stm_attackers_pinned_out(P, stm, occupied, attackers) ==
    (attackers \cap pieces_c(P, stm)) \ St(P).blockersForKing[stm]

\* the attackers of stm, without the pinned ones as long as all pinners are
\* on their original square
see_ge_stm_attackers(P, stm, occupied, attackers) ==
    LET stmAttackers == attackers \cap pieces_c(P, stm) IN
    IF (St(P).pinnersForKing[stm] \ occupied) = {}
    THEN stmAttackers \ St(P).blockersForKing[stm]
    ELSE stmAttackers

\* the king is the attacker found
see_ge_king(P, stm, relativeStm, attackers) ==
    relativeStm = ((attackers \cap pieces_c(P, Opp(stm))) # {})

\* while (true) { ... }
RECURSIVE see_ge_loop(_, _, _, _, _, _, _, _)
see_ge_loop(P, to, v, stm, balance, relativeStm, occupied, attackers) ==
    LET stmAttackers == see_ge_stm_attackers(P, stm, occupied, attackers) IN
    IF stmAttackers = {} THEN relativeStm
    ELSE LET r == min_attacker(P, PAWN, to, stmAttackers, occupied, attackers)
             nextVictim == r.pt IN
         IF nextVictim = KING THEN see_ge_king(P, stm, relativeStm, r.attackers)
         ELSE LET balance1 == IF relativeStm THEN balance + PieceValueMg[nextVictim]
                              ELSE balance - PieceValueMg[nextVictim]
                  relativeStm1 == ~relativeStm IN
              IF relativeStm1 = (balance1 >= v) THEN relativeStm1
              ELSE see_ge_loop(P, to, v, Opp(stm), balance1, relativeStm1,
                               r.occupied, r.attackers)

\* variant: an en-passant capture starts like any other move
see_ge_start_plain(P, m, stm) ==
    [balance |-> PieceValue(piece_on(P, to_sq(m))), occupied |-> {}]

\* the balance and the occupancy see_ge starts from; stm is the opponent of
\* the mover
see_ge_start(P, m, stm) ==
    IF move_type(m) = ENPASSANT
    THEN [balance |-> PieceValueMg[PAWN], occupied |-> {to_sq(m) - pawn_push(Opp(stm))}]
    ELSE [balance |-> PieceValue(piece_on(P, to_sq(m))), occupied |-> {}]

\* the occupancy the exchange starts with
see_ge_occupied(P, m, stm) ==
    XOR(see_ge_start(P, m, stm).occupied, XOR(XOR(pieces(P), {from_sq(m)}), {to_sq(m)}))

\* variant: a castling move passes the threshold zero alone
see_ge_castling_exact(v) == VALUE_ZERO = v

\* castling moves
see_ge_castling(v) == VALUE_ZERO >= v

see_ge(P, m, v) ==
    IF move_type(m) = CASTLING THEN see_ge_castling(v)
    ELSE LET from == from_sq(m)
             to == to_sq(m)
             nextVictim == type_of(piece_on(P, from))
             stm == Opp(color_of(piece_on(P, from)))
             start == see_ge_start(P, m, stm) IN
         IF start.balance < v THEN FALSE
         ELSE IF nextVictim = KING THEN TRUE
         ELSE LET balance == start.balance - PieceValueMg[nextVictim] IN
              IF balance >= v THEN TRUE
              ELSE LET occupied == see_ge_occupied(P, m, stm)
                       attackers == attackers_to_occ(P, to, occupied) \cap occupied IN
                   see_ge_loop(P, to, v, stm, balance, TRUE, occupied, attackers)

---------------------------------------------------------------------------
(* The Atomic variant of see_ge: the board is read as an Atomic position,   *)
(* where a capture destroys the capturing piece, the captured piece and     *)
(* every piece other than a pawn on the squares next to the destination.    *)

\* blast_eval: the sum over the colours and the types pt..QUEEN
RECURSIVE see_blast_eval(_, _, _, _)
see_blast_eval(P, stm, blast, pt) ==
    IF pt > QUEEN THEN 0
    ELSE (Cardinality(blast \cap pieces_cpt(P, Opp(stm), pt))
          - Cardinality(blast \cap pieces_cpt(P, stm, pt))) * PieceValueMg[pt]
         + see_blast_eval(P, stm, blast, pt + 1)

\* see<ATOMIC_VARIANT>(m)
see_atomic(P, m) ==
    LET from == from_sq(m)
        to == to_sq(m)
        stm == color_of(piece_on(P, from))
        blast == (KingAttacks[to] \cap XOR(pieces(P), pieces_pt(P, PAWN))) \ {from} IN
    IF (blast \cap pieces_cpt(P, Opp(stm), KING)) # {} THEN VALUE_MATE
    ELSE see_blast_eval(P, stm, blast, KNIGHT)
         + PieceValue(piece_on(P, to_sq(m))) - PieceValue(moved_piece(P, m))

\* see_ge, is_atomic(), a capture
see_ge_atomic_capture(P, m, v) == see_atomic(P, m) >= v + 1

\* see_ge, is_atomic(), not a capture: every enemy piece s, the king apart,
\* that attacks `to` is tried as the capturer
see_ge_atomic_quiet(P, m, v) ==
    LET from == from_sq(m)
        to == to_sq(m)
        stm == color_of(piece_on(P, from))
        occupied == XOR(pieces(P), {from})
        b == ((attackers_to_occ(P, to, occupied) \cap occupied) \cap pieces_c(P, Opp(stm)))
             \ pieces_pt(P, KING)
        blast(sq) == ((KingAttacks[to] \cap XOR(pieces(P), pieces_pt(P, PAWN))) \ {from}) \ {sq} IN
    IF v > VALUE_ZERO THEN FALSE
    ELSE \A sq \in b :
            \/ (blast(sq) \cap pieces_cpt(P, Opp(stm), KING)) # {}
            \/ /\ (blast(sq) \cap pieces_cpt(P, stm, KING)) = {}
               /\ see_blast_eval(P, stm, blast(sq), KNIGHT)
                    + PieceValue(piece_on(P, sq)) - PieceValue(moved_piece(P, m)) >= v

\* see_ge(m, v) when is_atomic()
see_ge_atomic(P, m, v) ==
    IF move_type(m) = CASTLING THEN see_ge_castling(v)
    ELSE IF capture(P, m) THEN see_ge_atomic_capture(P, m, v)
    ELSE see_ge_atomic_quiet(P, m, v)

---------------------------------------------------------------------------
(* pos_is_ok *)

\* variant: the full check, every step
pos_is_ok_Fast_off == FALSE

\* const bool Fast = true: quick (default) or full check
pos_is_ok_Fast == TRUE

\* step == Default
pos_is_ok_Default(P) ==
    LET wksq == square_king(P, WHITE)
        bksq == square_king(P, BLACK) IN
    ~ \/ (P.sideToMove # WHITE /\ P.sideToMove # BLACK)
      \/ piece_on(P, wksq) # make_piece(WHITE, KING)
      \/ piece_on(P, bksq) # make_piece(BLACK, KING)
      \/ (ep_square(P) # SQ_NONE /\ relative_rank(P.sideToMove, ep_square(P)) # RANK_6)

\* the steps King, Bitboards, State, Lists and Castling
pos_is_ok_full(P) ==
    LET count(pc) == Cardinality({s \in Squares : P.board[s] = pc})
        king == ~ \/ count(make_piece(WHITE, KING)) # 1
                  \/ count(make_piece(BLACK, KING)) # 1
                  \/ (attackers_to(P, square_king(P, Opp(P.sideToMove)))
                        \cap pieces_c(P, P.sideToMove)) # {}
        bitboards == ~ \/ (pieces_c(P, WHITE) \cap pieces_c(P, BLACK)) # {}
                       \/ (pieces_c(P, WHITE) \cup pieces_c(P, BLACK)) # pieces(P)
                       \/ \E p1, p2 \in PieceTypes :
                             p1 # p2 /\ (pieces_pt(P, p1) \cap pieces_pt(P, p2)) # {}
        state == set_state(P, St(P)) = St(P)
        lists == ~ \/ \E pc \in Pieces :
                        \/ P.pieceCount[pc]
                             # Cardinality(pieces_cpt(P, color_of(pc), type_of(pc)))
                        \/ \E i \in 0..(P.pieceCount[pc] - 1) :
                              \/ P.board[P.pieceList[pc][i]] # pc
                              \/ P.index[P.pieceList[pc][i]] # i
                   \/ P.pieceCount[PAWN] > FILE_NB
        castling == \A c \in Colors, cs \in {KING_SIDE, QUEEN_SIDE} :
                       LET cr == castling_right(c, cs) IN
                       can_castle(P, cr) =>
                          ~ \/ piece_on(P, P.castlingRookSquare[cr]) # make_piece(c, ROOK)
                            \/ P.castlingRightsMask[P.castlingRookSquare[cr]] # {cr}
                            \/ ~(cr \in P.castlingRightsMask[square_king(P, c)]) IN
    king /\ bitboards /\ state /\ lists /\ castling

\* for (step = Default; step <= (Fast ? Default : Castling); step++)
pos_is_ok(P) ==
    pos_is_ok_Default(P) /\ (pos_is_ok_Fast \/ pos_is_ok_full(P))

---------------------------------------------------------------------------
(* The positions the runs start from, as position strings given to set() *)

\* 5k2/4p1p1/4P1P1/8/8/7p/7P/4K2R w K - 0 1
\* castling gives check on the f-file and gives up the castling right
FenCastle ==
    [pl |-> <<"5", "k", "2", "/", "4", "p", "1", "p", "1", "/", "4", "P", "1", "P", "1", "/", "8", "/", "8", "/", "7", "p", "/", "7", "P", "/", "4", "K", "2", "R">>,
     stm |-> "w", ca |-> <<"K">>, ep |-> <<"-">>, hm |-> 0, fm |-> 1]

\* 8/8/8/p7/R3p2k/P7/P2P4/K7 w - - 0 1
\* d2d4 sets the en-passant square; the en-passant capture would expose the
\* king along the rank
FenEpPinned ==
    [pl |-> <<"8", "/", "8", "/", "8", "/", "p", "7", "/", "R", "3", "p", "2", "k", "/", "P", "7", "/", "P", "2", "P", "4", "/", "K", "7">>,
     stm |-> "w", ca |-> <<"-">>, ep |-> <<"-">>, hm |-> 0, fm |-> 1]

\* 6k1/6p1/6P1/3pP3/8/8/B7/K7 w - d6 0 1
\* en passant discovers the bishop's check through the captured pawn
FenEpCheck ==
    [pl |-> <<"6", "k", "1", "/", "6", "p", "1", "/", "6", "P", "1", "/", "3", "p", "P", "3", "/", "8", "/", "8", "/", "B", "7", "/", "K", "7">>,
     stm |-> "w", ca |-> <<"-">>, ep |-> <<"d", "6">>, hm |-> 0, fm |-> 1]

\* 1n5k/P5p1/6P1/8/8/7p/7P/7K w - - 0 1
\* promotion by push and by capture, with and without check
FenPromotion ==
    [pl |-> <<"1", "n", "5", "k", "/", "P", "5", "p", "1", "/", "6", "P", "1", "/", "8", "/", "8", "/", "7", "p", "/", "7", "P", "/", "7", "K">>,
     stm |-> "w", ca |-> <<"-">>, ep |-> <<"-">>, hm |-> 0, fm |-> 1]

\* 4k3/8/8/8/8/5b2/6N1/7K w - - 3 9
\* the knight is pinned by the bishop
FenPin ==
    [pl |-> <<"4", "k", "3", "/", "8", "/", "8", "/", "8", "/", "8", "/", "5", "b", "2", "/", "6", "N", "1", "/", "7", "K">>,
     stm |-> "w", ca |-> <<"-">>, ep |-> <<"-">>, hm |-> 3, fm |-> 9]

\* k7/8/8/8/N7/8/8/RK6 w - - 7 30
\* a knight move discovers the rook's check; Nb6 is a double check
FenDiscover ==
    [pl |-> <<"k", "7", "/", "8", "/", "8", "/", "8", "/", "N", "7", "/", "8", "/", "8", "/", "R", "K", "6">>,
     stm |-> "w", ca |-> <<"-">>, ep |-> <<"-">>, hm |-> 7, fm |-> 30]

\* 7k/R7/P6K/8/8/8/8/8 w - - 99 80
\* halfmove clock 99: Ra8 mates and Rh7 checks with rule50 = 100
FenMate ==
    [pl |-> <<"7", "k", "/", "R", "7", "/", "P", "6", "K", "/", "8", "/", "8", "/", "8", "/", "8", "/", "8">>,
     stm |-> "w", ca |-> <<"-">>, ep |-> <<"-">>, hm |-> 99, fm |-> 80]

\* 7k/8/8/3p4/8/8/4P3/K7 w - d6 0 1
\* the en-passant field names d6 but no white pawn can capture there; e2e4
\* is a double push next to no black pawn
FenEpIgnored ==
    [pl |-> <<"7", "k", "/", "8", "/", "8", "/", "3", "p", "4", "/", "8", "/", "8", "/", "4", "P", "3", "/", "K", "7">>,
     stm |-> "w", ca |-> <<"-">>, ep |-> <<"d", "6">>, hm |-> 0, fm |-> 1]

\* 5k2/4p1p1/4P1P1/8/8/p1p1p2p/PbP1P2P/R3K2R w KQ - 0 1
\* White holds both castling rights; the bishop on b2 attacks the rook on a1
\* and the square c1
FenCastleBoth ==
    [pl |-> <<"5", "k", "2", "/", "4", "p", "1", "p", "1", "/", "4", "P", "1", "P", "1", "/", "8", "/", "8", "/", "p", "1", "p", "1", "p", "2", "p", "/", "P", "b", "P", "1", "P", "2", "P", "/", "R", "3", "K", "2", "R">>,
     stm |-> "w", ca |-> <<"K", "Q">>, ep |-> <<"-">>, hm |-> 0, fm |-> 1]

Scenarios ==
    {FenCastle, FenEpPinned, FenEpCheck, FenPromotion, FenPin, FenDiscover, FenMate,
     FenEpIgnored, FenCastleBoth}

---------------------------------------------------------------------------
(* The state machine.  pos is the Position with its StateInfo chain.  hist *)
(* and last are history variables: hist holds, for every do_move and       *)
(* do_null_move not yet undone, the move and the position before it; last  *)
(* is the operation that produced the current state, with the position     *)
(* before that operation (prev) and, for an undo, the position before the  *)
(* matching do (base).                                                     *)

Init ==
    /\ \E fenStr \in Scenarios : pos = set(fenStr, FALSE)
    /\ hist = <<>>
    /\ last = [op |-> "set", m |-> 0, prev |-> pos, base |-> pos]

Top == hist[Len(hist)]
Pop == SubSeq(hist, 1, Len(hist) - 1)

\* do_move(m, newSt, gives_check(m)) for one of the moves ms
DoMoveOf(ms) ==
    \E m \in ms :
        /\ pos' = do_move(pos, m, gives_check(pos, m))
        /\ hist' = Append(hist, [op |-> "do_move", m |-> m, before |-> pos])
        /\ last' = [op |-> "do_move", m |-> m, prev |-> pos, base |-> pos]

DoMove ==
    /\ pos.nodes < MaxNodes
    /\ DoMoveOf(MoveListLegal(pos))

UndoMove ==
    /\ hist # <<>>
    /\ Top.op = "do_move"
    /\ pos' = undo_move(pos, Top.m)
    /\ hist' = Pop
    /\ last' = [op |-> "undo_move", m |-> Top.m, prev |-> pos, base |-> Top.before]

\* variant: the null move is made whether or not the side to move is in check
DoNullMoveInCheck ==
    /\ Len(hist) < MaxNodes
    /\ pos' = do_null_move(pos)
    /\ hist' = Append(hist, [op |-> "do_null_move", m |-> 0, before |-> pos])
    /\ last' = [op |-> "do_null_move", m |-> 0, prev |-> pos, base |-> pos]

DoNullMove ==
    /\ Len(hist) < MaxNodes
    /\ checkers(pos) = {}
    /\ pos' = do_null_move(pos)
    /\ hist' = Append(hist, [op |-> "do_null_move", m |-> 0, before |-> pos])
    /\ last' = [op |-> "do_null_move", m |-> 0, prev |-> pos, base |-> pos]

UndoNullMove ==
    /\ hist # <<>>
    /\ Top.op = "do_null_move"
    /\ pos' = undo_null_move(pos)
    /\ hist' = Pop
    /\ last' = [op |-> "undo_null_move", m |-> 0, prev |-> pos, base |-> Top.before]

Next == DoMove \/ UndoMove \/ DoNullMove \/ UndoNullMove

Spec == Init /\ [][Next]_vars

---------------------------------------------------------------------------
(* Games played forward from the same positions, every legal move at every *)
(* ply: the positions in which single moves are examined.                  *)

\* the longest game played, in plies
MaxPlayPlies == 3

PlayDoMove ==
    /\ Len(hist) < MaxPlayPlies
    /\ DoMoveOf(MoveListLegal(pos))

PlayNext == PlayDoMove

SpecPlay == Init /\ [][PlayNext]_vars

---------------------------------------------------------------------------
(* Lines of reversible moves, long enough for a position to come back      *)
(* twice: the moves are taken from a pool of knight, rook and king         *)
(* shuttles and one pawn move, with null moves in between.                 *)

\* the longest line played, in plies (null moves included)
MaxRepPlies == 8

\* rnbqkbnr/pppppppp/8/8/8/8/PPPPPPPP/RNBQKBNR w KQkq - 0 1
FenStart ==
    [pl |-> <<"r", "n", "b", "q", "k", "b", "n", "r", "/", "p", "p", "p", "p", "p", "p", "p", "p", "/", "8", "/", "8", "/", "8", "/", "8", "/", "P", "P", "P", "P", "P", "P", "P", "P", "/", "R", "N", "B", "Q", "K", "B", "N", "R">>,
     stm |-> "w", ca |-> <<"K", "Q", "k", "q">>, ep |-> <<"-">>, hm |-> 0, fm |-> 1]
\* 4k3/8/8/8/8/8/8/4K2R w K - 0 1
\* a rook shuttle gives up the castling right
FenRookShuttle ==
    [pl |-> <<"4", "k", "3", "/", "8", "/", "8", "/", "8", "/", "8", "/", "8", "/", "8", "/", "4", "K", "2", "R">>,
     stm |-> "w", ca |-> <<"K">>, ep |-> <<"-">>, hm |-> 0, fm |-> 1]
\* 4k3/8/8/3pP3/8/8/8/4K3 w - d6 0 1
\* the en-passant square is gone after the first move
FenEpShuttle ==
    [pl |-> <<"4", "k", "3", "/", "8", "/", "8", "/", "3", "p", "P", "3", "/", "8", "/", "8", "/", "8", "/", "4", "K", "3">>,
     stm |-> "w", ca |-> <<"-">>, ep |-> <<"d", "6">>, hm |-> 0, fm |-> 1]
RepScenarios == {FenStart, FenRookShuttle, FenEpShuttle}

\* g1f3 f3g1 g8f6 f6g8 e2e3, h1g1 g1h1, e1d1 d1e1 e8d8 d8e8
RepPool ==
    {make_move(6, 21), make_move(21, 6), make_move(62, 45), make_move(45, 62),
     make_move(12, 20), make_move(7, 6), make_move(6, 7),
     make_move(4, 3), make_move(3, 4), make_move(60, 59), make_move(59, 60)}

RepInit ==
    /\ \E fenStr \in RepScenarios : pos = set(fenStr, FALSE)
    /\ hist = <<>>
    /\ last = [op |-> "set", m |-> 0, prev |-> pos, base |-> pos]

RepDoMove ==
    /\ Len(hist) < MaxRepPlies
    /\ DoMoveOf(MoveListLegal(pos) \cap RepPool)

RepDoNullMove ==
    /\ Len(hist) < MaxRepPlies
    /\ checkers(pos) = {}
    /\ pos' = do_null_move(pos)
    /\ hist' = Append(hist, [op |-> "do_null_move", m |-> 0, before |-> pos])
    /\ last' = [op |-> "do_null_move", m |-> 0, prev |-> pos, base |-> pos]

RepNext == RepDoMove \/ RepDoNullMove

SpecRep == RepInit /\ [][RepNext]_vars

---------------------------------------------------------------------------
(* Kings-only endgames played with king moves only, past the hundredth     *)
(* halfmove.  Each king follows a fixed route: in one position both kings  *)
(* shuttle between two squares, in the other they walk round tours of 7    *)
(* and 8 squares, so that no position comes back within 112 halfmoves.     *)

\* the longest game played, in halfmoves
MaxFiftyPlies == 102

\* k7/8/8/8/8/8/8/K7 w - - 0 1
FenKingsShuttle ==
    [pl |-> <<"k", "7", "/", "8", "/", "8", "/", "8", "/", "8", "/", "8", "/", "8", "/", "K", "7">>,
     stm |-> "w", ca |-> <<"-">>, ep |-> <<"-">>, hm |-> 0, fm |-> 1]
\* 5k2/8/8/8/8/8/8/5K2 w - - 0 1
FenKingsTour ==
    [pl |-> <<"5", "k", "2", "/", "8", "/", "8", "/", "8", "/", "8", "/", "8", "/", "8", "/", "5", "K", "2">>,
     stm |-> "w", ca |-> <<"-">>, ep |-> <<"-">>, hm |-> 0, fm |-> 1]
FiftyScenarios == {FenKingsShuttle, FenKingsTour}

\* a1b1 b1a1 a8b8 b8a8, f1g1 g1h1 h1h2 h2h3 h3g3 g3f2 f2f1,
\* f8g8 g8h8 h8h7 h7h6 h6g6 g6f6 f6f7 f7f8
FiftyPool ==
    {make_move(0, 1), make_move(1, 0), make_move(56, 57), make_move(57, 56),
     make_move(5, 6), make_move(6, 7), make_move(7, 15), make_move(15, 23),
     make_move(23, 22), make_move(22, 13), make_move(13, 5),
     make_move(61, 62), make_move(62, 63), make_move(63, 55), make_move(55, 47),
     make_move(47, 46), make_move(46, 45), make_move(45, 53), make_move(53, 61)}

FiftyInit ==
    /\ \E fenStr \in FiftyScenarios : pos = set(fenStr, FALSE)
    /\ hist = <<>>
    /\ last = [op |-> "set", m |-> 0, prev |-> pos, base |-> pos]

\* the game is played forward only: nothing is kept for an undo
FiftyDoMove ==
    /\ pos.gamePly < MaxFiftyPlies
    /\ \E m \in MoveListLegal(pos) \cap FiftyPool :
        /\ pos' = do_move(pos, m, gives_check(pos, m))
        /\ hist' = hist
        /\ last' = [op |-> "do_move", m |-> m, prev |-> pos, base |-> pos]

FiftyNext == FiftyDoMove

SpecFifty == FiftyInit /\ [][FiftyNext]_vars

---------------------------------------------------------------------------
(* What the properties below are measured against: attacks computed piece  *)
(* by piece from the attacker's square, and moves tried out on the board.  *)

\* the pieces of colour c that attack square s
AttackingPieces(P, c, s) ==
    {a \in pieces_c(P, c) : s \in attacks_from(P, piece_on(P, a), a)}

\* the side to move is in check
InCheck(P) ==
    AttackingPieces(P, Opp(P.sideToMove), square_king(P, P.sideToMove)) # {}

\* after m is played the mover's king is not attacked
KingSafeAfter(P, m) ==
    LET Q == do_move(P, m, FALSE) IN
    AttackingPieces(Q, Q.sideToMove, square_king(Q, P.sideToMove)) = {}

HasLegalMove(P) == \E m \in generate(P) : KingSafeAfter(P, m)

\* the values of the argument of is_draw that can make a difference
Plies(P) == 0..(Len(P.states) + 1)

\* the distances i = 4, 6, ... within the reversible plies at which the
\* key of the current position is found again
RepetitionMatches(P) ==
    {i \in 4..Min(St(P).rule50, St(P).pliesFromNull) :
        i % 2 = 0 /\ P.states[Len(P.states) - i].key = St(P).key}

\* one match after the root or two before it
Repetition(P, ply) ==
    \/ \E i \in RepetitionMatches(P) : i < ply
    \/ Cardinality({i \in RepetitionMatches(P) : i >= ply}) >= 2

\* the undo now finished was made directly after its do_move
UndoneDirectly ==
    /\ last.op = "undo_move"
    /\ last.prev = do_move(last.base, last.m, gives_check(last.base, last.m))

---------------------------------------------------------------------------
(* Exchanges: positions with a contested square, and the moves played from *)
(* them, for see_ge                                                        *)

\* 7k/8/5n2/3p4/8/8/6B1/3R3K w - - 0 1
\* the pawn on d5 is defended by one knight and attacked by a rook and a bishop
FenExchange ==
    [pl |-> <<"7", "k", "/", "8", "/", "5", "n", "2", "/", "3", "p", "4", "/", "8", "/", "8", "/", "6", "B", "1", "/", "3", "R", "3", "K">>,
     stm |-> "w", ca |-> <<"-">>, ep |-> <<"-">>, hm |-> 0, fm |-> 1]

\* 3r3k/3q4/8/3p4/8/8/3R4/3R3K w - - 0 1
\* doubled rooks attack the pawn on d5; a queen, with a rook behind it, defends it
FenBattery ==
    [pl |-> <<"3", "r", "3", "k", "/", "3", "q", "4", "/", "8", "/", "3", "p", "4", "/", "8", "/", "8", "/", "3", "R", "4", "/", "3", "R", "3", "K">>,
     stm |-> "w", ca |-> <<"-">>, ep |-> <<"-">>, hm |-> 0, fm |-> 1]

\* 7k/8/5n2/R2p4/3B4/8/8/7K w - - 0 1
\* the knight that defends d5 is pinned to its king by the bishop on d4
FenPinnedDefender ==
    [pl |-> <<"7", "k", "/", "8", "/", "5", "n", "2", "/", "R", "2", "p", "4", "/", "3", "B", "4", "/", "8", "/", "8", "/", "7", "K">>,
     stm |-> "w", ca |-> <<"-">>, ep |-> <<"-">>, hm |-> 0, fm |-> 1]

\* 8/8/4k3/3p4/8/8/6B1/3R3K w - - 0 1
\* the pawn on d5 is defended by the king alone and attacked twice
FenKingDefender ==
    [pl |-> <<"8", "/", "8", "/", "4", "k", "3", "/", "3", "p", "4", "/", "8", "/", "8", "/", "6", "B", "1", "/", "3", "R", "3", "K">>,
     stm |-> "w", ca |-> <<"-">>, ep |-> <<"-">>, hm |-> 0, fm |-> 1]

\* 3r2k1/8/8/3pP3/8/8/8/3RK2R w K d6 0 1
\* after exd6 the rook on d1 attacks d6 through the square of the captured
\* pawn; White may also castle
FenEpExchange ==
    [pl |-> <<"3", "r", "2", "k", "1", "/", "8", "/", "8", "/", "3", "p", "P", "3", "/", "8", "/", "8", "/", "8", "/", "3", "R", "K", "2", "R">>,
     stm |-> "w", ca |-> <<"K">>, ep |-> <<"d", "6">>, hm |-> 0, fm |-> 1]

SeeScenarios ==
    {FenExchange, FenBattery, FenPinnedDefender, FenKingDefender, FenEpExchange,
     FenCastle, FenEpCheck}

MaxSeePlies == 2

SeeInit ==
    /\ \E fenStr \in SeeScenarios : pos = set(fenStr, FALSE)
    /\ hist = <<>>
    /\ last = [op |-> "set", m |-> 0, prev |-> pos, base |-> pos]

SeeDoMove ==
    /\ Len(hist) < MaxSeePlies
    /\ DoMoveOf(MoveListLegal(pos))

SeeNext == SeeDoMove

SpecSee == SeeInit /\ [][SeeNext]_vars

---------------------------------------------------------------------------
(* Position strings: a string is drawn, set() builds the position from it  *)

\* r3k2r/pppppppp/8/8/4P3/8/8/R3K2R b KQkq e3 0 1
\* after e2-e4: the string names e3, no black pawn can capture there
FenAfterE4 ==
    [pl |-> <<"r", "3", "k", "2", "r", "/", "p", "p", "p", "p", "p", "p", "p", "p", "/", "8", "/", "8", "/", "4", "P", "3", "/", "8", "/", "8", "/", "R", "3", "K", "2", "R">>,
     stm |-> "b", ca |-> <<"K", "Q", "k", "q">>, ep |-> <<"e", "3">>, hm |-> 0, fm |-> 1]

\* 4k3/8/8/8/3Pp3/8/8/4K3 b - d3 0 5
\* Black to move can capture en passant on d3
FenBlackEp ==
    [pl |-> <<"4", "k", "3", "/", "8", "/", "8", "/", "8", "/", "3", "P", "p", "3", "/", "8", "/", "8", "/", "4", "K", "3">>,
     stm |-> "b", ca |-> <<"-">>, ep |-> <<"d", "3">>, hm |-> 0, fm |-> 5]

MaxFullmove == 4

\* the strings of all scenarios, with the fullmove numbers 0..MaxFullmove
FenStrings ==
    {[f EXCEPT !.fm = n] :
        f \in Scenarios \cup SeeScenarios
               \cup {FenRookShuttle, FenEpShuttle, FenKingsShuttle, FenKingsTour,
                     FenAfterE4, FenBlackEp},
        n \in 0..MaxFullmove}

FenInit ==
    /\ pos = ZeroPosition
    /\ hist = <<>>
    /\ \E f \in FenStrings :
          last = [op |-> "string", m |-> 0, prev |-> pos, base |-> pos, fen |-> f]

FenSet ==
    /\ last.op = "string"
    /\ pos' = set(last.fen, FALSE)
    /\ last' = [last EXCEPT !.op = "set", !.prev = pos, !.base = pos]
    /\ UNCHANGED hist

FenNext == FenSet

SpecFen == FenInit /\ [][FenNext]_vars

---------------------------------------------------------------------------
(* Runs of the program.  Each run starts with the tables of namespace      *)
(* Zobrist zeroed and a clock value of its own; it runs Position::init()   *)
(* once, a turn of its loop over cr at a time, and then each of its        *)
(* workers builds a Position with set() and                                *)
(* reads its keys.  Here pos holds the runs: for each run its clock, its   *)
(* tables, whether init() has run, and for each worker the keys of the     *)
(* position it has set.                                                    *)

Runs == 1..2
Workers == 1..2
Clocks == 1..2
ZobStrings == {FenCastle, FenEpShuttle, FenPromotion}
\* ANY_CASTLING, as an integer
AnyCastling == Cardinality(SUBSET CastlingRights) - 1

\* cr is the subset the loop of init() over the castling rights is at
ZobInit ==
    /\ \E clock \in [Runs -> Clocks] :
          pos = [r \in Runs |-> [clock |-> clock[r], Zobrist |-> ZeroZobrist,
                                 rng |-> PRNG(0), at |-> "start", cr |-> 0,
                                 ready |-> FALSE, keys |-> [w \in Workers |-> <<>>]]]
    /\ hist = <<>>
    /\ last = [op |-> "start", run |-> 0]

\* Position::init() in run r, up to the loop over cr
ZobInitTables ==
    \E r \in Runs :
        /\ pos[r].at = "start"
        /\ LET t == init_tables(pos[r].Zobrist, pos[r].clock) IN
           pos' = [pos EXCEPT ![r].Zobrist = t.Zobrist, ![r].rng = t.rng,
                              ![r].at = "castling", ![r].cr = 0]
        /\ last' = [op |-> "init", run |-> r]
        /\ UNCHANGED hist

\* one turn of the loop over cr
ZobInitCastling ==
    \E r \in Runs :
        /\ pos[r].at = "castling"
        /\ pos[r].cr <= AnyCastling
        /\ LET z == init_castling_cr([castling |-> pos[r].Zobrist.castling,
                                      rng |-> pos[r].rng], pos[r].cr) IN
           pos' = [pos EXCEPT ![r].Zobrist.castling = z.castling, ![r].rng = z.rng,
                              ![r].cr = @ + 1]
        /\ last' = [op |-> "init", run |-> r]
        /\ UNCHANGED hist

\* the rest of Position::init()
ZobInitRest ==
    \E r \in Runs :
        /\ pos[r].at = "castling"
        /\ pos[r].cr > AnyCastling
        /\ pos' = [pos EXCEPT ![r].Zobrist = init_rest(pos[r].Zobrist, pos[r].rng),
                              ![r].rng = rand(rand(pos[r].rng).rng).rng,
                              ![r].at = "done", ![r].ready = TRUE]
        /\ last' = [op |-> "init", run |-> r]
        /\ UNCHANGED hist

\* set(fenStr) by worker w of run r, and the keys of the position under the
\* tables of the run
ZobSet ==
    \E r \in Runs, w \in Workers, fenStr \in ZobStrings :
        /\ pos[r].ready
        /\ pos[r].keys[w] = <<>>
        /\ LET si == St(set(fenStr, FALSE)) IN
           pos' = [pos EXCEPT ![r].keys[w] =
                     <<[fen |-> fenStr,
                        key |-> KeyValue(pos[r].Zobrist, si.key),
                        pawnKey |-> KeyValue(pos[r].Zobrist, si.pawnKey),
                        materialKey |-> KeyValue(pos[r].Zobrist, si.materialKey)]>>]
        /\ last' = [op |-> "set", run |-> r]
        /\ UNCHANGED hist

ZobNext == ZobInitTables \/ ZobInitCastling \/ ZobInitRest \/ ZobSet

SpecZobrist == ZobInit /\ [][ZobNext]_vars

---------------------------------------------------------------------------
(* Positions handed to pos_is_ok(): the positions set(), do_move,          *)
(* undo_move and do_null_move leave, one ply deep, as they are or with one *)
(* field overwritten.  last.made is the operation that left the position   *)
(* and last.fault the field overwritten.                                   *)

Faults ==
    {"none", "occupancy", "colour", "index", "key", "material", "checkers", "king", "ep"}

\* the position P with one field overwritten
Overwrite(P, fault) ==
    LET wksq == square_king(P, WHITE)
        top == Len(P.states) IN
    CASE fault = "occupancy" -> [P EXCEPT !.byTypeBB[ALL_PIECES] = @ \ {wksq}]
      [] fault = "colour"    -> [P EXCEPT !.byColorBB[BLACK] = @ \cup {wksq}]
      [] fault = "index"     -> [P EXCEPT !.index[wksq] = @ + 1]
      [] fault = "key"       -> [P EXCEPT !.states[top].key = XOR(@, ZobristSide)]
      [] fault = "material"  ->
            [P EXCEPT !.states[top].nonPawnMaterial[WHITE] = @ + PieceValue(QUEEN)]
      [] fault = "checkers"  -> [P EXCEPT !.states[top].checkersBB = XOR(@, {wksq})]
      [] fault = "king"      -> [P EXCEPT !.board[wksq] = NO_PIECE]
      [] fault = "ep"        -> [P EXCEPT !.states[top].epSquare = SQ_A1]
      [] OTHER               -> P

OkDoMove == last.op = "set" /\ DoMove

OkUndoMove == last.op = "do_move" /\ UndoMove

OkDoNullMove == last.op = "set" /\ DoNullMove

\* a field of the position is overwritten behind the back of the operations
OkOverwrite ==
    /\ last.op \in {"set", "do_move", "undo_move", "do_null_move"}
    /\ \E fault \in Faults :
          /\ pos' = Overwrite(pos, fault)
          /\ last' = [op |-> "made", made |-> last.op, fault |-> fault, result |-> FALSE]
    /\ UNCHANGED hist

\* assert(pos_is_ok())
OkCheck ==
    /\ last.op = "made"
    /\ last' = [last EXCEPT !.op = "pos_is_ok", !.result = pos_is_ok(pos)]
    /\ UNCHANGED <<pos, hist>>

OkNext == OkDoMove \/ OkUndoMove \/ OkDoNullMove \/ OkOverwrite \/ OkCheck

SpecOk == Init /\ [][OkNext]_vars

---------------------------------------------------------------------------
(* Two workers, each with a Position set from the same root.  Position::set *)
(* takes the first StateInfo from its caller (st = si), so the chains of    *)
(* both Positions may end in one and the same record: pos.rootSt is that    *)
(* record, pos.own[w] the Position of worker w with the records it pushed   *)
(* itself.  hist[w].trace lists the operations worker w has run and         *)
(* hist[w].stack the moves it has not undone; last.root is the root.        *)

\* most operations one worker runs
MaxTwoOps == 2

TwoRoots == {FenCastle, FenPromotion, FenEpShuttle}

\* the Position as worker w sees it: its own records on top of the root's
View(mem, w) == [mem.own[w] EXCEPT !.states = <<mem.rootSt>> \o @]

\* what worker w leaves in memory when its Position has become Q
Write(mem, w, Q) ==
    [rootSt |-> Q.states[1],
     own |-> [mem.own EXCEPT ![w] = [Q EXCEPT !.states = Tail(Q.states)]]]

\* the moves the workers try: captures, castlings, promotions, en-passant
\* captures and king moves
TwoMoves(P) ==
    {m \in MoveListLegal(P) :
        \/ move_type(m) # NORMAL
        \/ capture(P, m)
        \/ type_of(moved_piece(P, m)) = KING}

TwoInit ==
    /\ \E fenStr \in TwoRoots :
          LET P == set(fenStr, FALSE) IN
          /\ pos = [rootSt |-> P.states[1],
                    own |-> [w \in Workers |-> [P EXCEPT !.states = <<>>]]]
          /\ last = [op |-> "set", w |-> 0, root |-> P]
    /\ hist = [w \in Workers |-> [trace |-> <<>>, stack |-> <<>>]]

TwoRan(w, op, m) ==
    /\ hist' = [hist EXCEPT ![w].trace = Append(@, [op |-> op, m |-> m]),
                            ![w].stack = IF op \in {"do_move", "do_null_move"}
                                         THEN Append(@, [op |-> op, m |-> m])
                                         ELSE SubSeq(@, 1, Len(@) - 1)]
    /\ last' = [last EXCEPT !.op = op, !.w = w]

TwoTop(w) == hist[w].stack[Len(hist[w].stack)]

TwoDoMove(w) ==
    /\ Len(hist[w].trace) < MaxTwoOps
    /\ \E m \in TwoMoves(View(pos, w)) :
          /\ pos' = Write(pos, w, do_move(View(pos, w), m, gives_check(View(pos, w), m)))
          /\ TwoRan(w, "do_move", m)

TwoUndoMove(w) ==
    /\ hist[w].stack # <<>>
    /\ TwoTop(w).op = "do_move"
    /\ pos' = Write(pos, w, undo_move(View(pos, w), TwoTop(w).m))
    /\ TwoRan(w, "undo_move", TwoTop(w).m)

TwoDoNullMove(w) ==
    /\ Len(hist[w].trace) < MaxTwoOps
    /\ checkers(View(pos, w)) = {}
    /\ pos' = Write(pos, w, do_null_move(View(pos, w)))
    /\ TwoRan(w, "do_null_move", 0)

TwoUndoNullMove(w) ==
    /\ hist[w].stack # <<>>
    /\ TwoTop(w).op = "do_null_move"
    /\ pos' = Write(pos, w, undo_null_move(View(pos, w)))
    /\ TwoRan(w, "undo_null_move", 0)

TwoNext ==
    \E w \in Workers :
        TwoDoMove(w) \/ TwoUndoMove(w) \/ TwoDoNullMove(w) \/ TwoUndoNullMove(w)

SpecTwo == TwoInit /\ [][TwoNext]_vars

\* one operation of a trace, run on P
Ran(P, o) ==
    CASE o.op = "do_move" -> do_move(P, o.m, gives_check(P, o.m))
      [] o.op = "undo_move" -> undo_move(P, o.m)
      [] o.op = "do_null_move" -> do_null_move(P)
      [] o.op = "undo_null_move" -> undo_null_move(P)

\* the Position a worker has when it runs the trace on the root alone
RECURSIVE Alone(_, _)
Alone(P, trace) ==
    IF trace = <<>> THEN P ELSE Alone(Ran(P, Head(trace)), Tail(trace))

---------------------------------------------------------------------------

(* do_move as any caller may call it: with every legal move and with        *)
(* either value of givesCheck, whether or not the move gives check.         *)
(* last.givesCheck is the value passed in.                                  *)

\* the longest line of moves played
MaxGivesPlies == 2

GivesDoMove ==
    /\ Len(hist) < MaxGivesPlies
    /\ \E m \in MoveListLegal(pos), givesCheck \in BOOLEAN :
          /\ pos' = do_move(pos, m, givesCheck)
          /\ hist' = Append(hist, [op |-> "do_move", m |-> m, before |-> pos])
          /\ last' = [op |-> "do_move", m |-> m, prev |-> pos, base |-> pos,
                      givesCheck |-> givesCheck]

GivesNext == GivesDoMove

SpecGives == Init /\ [][GivesNext]_vars

---------------------------------------------------------------------------

(* Crazyhouse (#ifdef CRAZYHOUSE, is_house()): the moves on the board are   *)
(* those of chess, and a captured piece goes to the hand of the capturer.   *)
(* pos.P holds the members chess has too; pieceCountInHand and              *)
(* promotedPieces are the members Crazyhouse adds, inHandKey the            *)
(* Zobrist::inHand draws in st->key, inHandPsq the number of times          *)
(* PSQT::psq[var][pc][SQ_NONE] is in st->psq, for each piece pc.            *)

\* the longest Crazyhouse line played
MaxHousePlies == 2

\* add_to_hand(c, pt) (position.h)
add_to_hand(inHand, pc) == [inHand EXCEPT ![pc] = @ + 1]

\* the piece a capture on `to` puts in hand: a pawn for a promoted piece
do_move_house_add(H, captured, to) ==
    IF to \in H.promotedPieces THEN make_piece(Opp(color_of(captured)), PAWN)
    ELSE make_piece(Opp(color_of(captured)), type_of(captured))

\* do_move(m, newSt, givesCheck) for a move on the board when is_house()
do_move_house(H, m, givesCheck) ==
    LET P == H.P
        us == P.sideToMove
        from == from_sq(m)
        to == to_sq(m)
        captured == IF move_type(m) = ENPASSANT THEN make_piece(Opp(us), PAWN)
                    ELSE IF move_type(m) = CASTLING THEN NO_PIECE
                    ELSE piece_on(P, to)
        \* if (captured) ... if (is_house())
        add == do_move_house_add(H, captured, to)
        n == H.pieceCountInHand[add]
        Ha == IF captured # NO_PIECE
              THEN [H EXCEPT !.capturedpromoted = to \in H.promotedPieces,
                             !.pieceCountInHand = add_to_hand(@, add),
                             !.inHandPsq[add] = @ + 1,
                             !.inHandKey = XOR(@, {<<add, n>>, <<add, n + 1>>}),
                             !.promotedPieces = @ \ {to}]
              ELSE [H EXCEPT !.capturedpromoted = FALSE]
        \* else if (type_of(m) == PROMOTION)
        Hb == IF move_type(m) = PROMOTION
              THEN [Ha EXCEPT !.promotedPieces = @ \cup {to}] ELSE Ha
        \* if (is_house() && type_of(m) != DROP && is_promoted(from))
        Hc == IF from \in Hb.promotedPieces
              THEN [Hb EXCEPT !.promotedPieces = (@ \ {from}) \cup {to}] ELSE Hb IN
    [Hc EXCEPT !.P = do_move(P, m, givesCheck)]

\* what set_state() computes when is_house(): the chess values, the pieces
\* in hand added to psq, nonPawnMaterial and key
set_state_house(H) ==
    LET si == set_state(H.P, St(H.P)) IN
    [si |-> [si EXCEPT !.nonPawnMaterial =
                [c \in Colors |->
                    si.nonPawnMaterial[c]
                    + H.pieceCountInHand[make_piece(c, KNIGHT)] * PieceValueMg[KNIGHT]
                    + H.pieceCountInHand[make_piece(c, BISHOP)] * PieceValueMg[BISHOP]
                    + H.pieceCountInHand[make_piece(c, ROOK)] * PieceValueMg[ROOK]
                    + H.pieceCountInHand[make_piece(c, QUEEN)] * PieceValueMg[QUEEN]]],
     inHandPsq |-> H.pieceCountInHand,
     inHandKey |-> {<<pc, H.pieceCountInHand[pc]>> : pc \in Pieces}]

HouseInit ==
    /\ \E fenStr \in Scenarios :
          pos = [P |-> set(fenStr, FALSE),
                 pieceCountInHand |-> [pc \in Pieces |-> 0],
                 promotedPieces |-> {},
                 capturedpromoted |-> FALSE,
                 inHandPsq |-> [pc \in Pieces |-> 0],
                 inHandKey |-> {<<pc, 0>> : pc \in Pieces}]
    /\ hist = <<>>
    /\ last = [op |-> "set", m |-> 0, prev |-> pos]

HouseDoMove ==
    /\ Len(hist) < MaxHousePlies
    /\ \E m \in MoveListLegal(pos.P) :
          /\ pos' = do_move_house(pos, m, gives_check(pos.P, m))
          /\ hist' = Append(hist, m)
          /\ last' = [op |-> "do_move", m |-> m, prev |-> pos]

HouseNext == HouseDoMove

SpecHouse == HouseInit /\ [][HouseNext]_vars

---------------------------------------------------------------------------

(* Chess960 castlings: positions in which the king or the rook stands on a  *)
(* square the other one goes to, or does not move at all.  The runs are     *)
(* those of Spec.                                                           *)

\* 7k/6p1/6P1/8/8/7p/7P/5KR1 w K - 0 1
\* king f1, rook g1: the king goes to the rook's square and the rook to the king's
Fen960Swap ==
    [pl |-> <<"7", "k", "/", "6", "p", "1", "/", "6", "P", "1", "/", "8", "/", "8", "/", "7", "p", "/", "7", "P", "/", "5", "K", "R", "1">>,
     stm |-> "w", ca |-> <<"K">>, ep |-> <<"-">>, hm |-> 0, fm |-> 1]
\* 7k/6p1/6P1/8/8/7p/7P/6KR w K - 0 1
\* king g1, rook h1: the king is on its destination
Fen960KingStays ==
    [pl |-> <<"7", "k", "/", "6", "p", "1", "/", "6", "P", "1", "/", "8", "/", "8", "/", "7", "p", "/", "7", "P", "/", "6", "K", "R">>,
     stm |-> "w", ca |-> <<"K">>, ep |-> <<"-">>, hm |-> 0, fm |-> 1]
\* 7k/6p1/6P1/8/8/7p/7P/4KR2 w K - 0 1
\* king e1, rook f1: the rook is on its destination
Fen960RookStays ==
    [pl |-> <<"7", "k", "/", "6", "p", "1", "/", "6", "P", "1", "/", "8", "/", "8", "/", "7", "p", "/", "7", "P", "/", "4", "K", "R", "2">>,
     stm |-> "w", ca |-> <<"K">>, ep |-> <<"-">>, hm |-> 0, fm |-> 1]
\* 7k/6p1/6P1/8/8/7p/7P/2RK4 w Q - 0 1
\* king d1, rook c1, queen side: king and rook change places
Fen960LongSwap ==
    [pl |-> <<"7", "k", "/", "6", "p", "1", "/", "6", "P", "1", "/", "8", "/", "8", "/", "7", "p", "/", "7", "P", "/", "2", "R", "K", "4">>,
     stm |-> "w", ca |-> <<"Q">>, ep |-> <<"-">>, hm |-> 0, fm |-> 1]
\* 7k/6p1/6P1/8/8/7p/7P/1RK5 w Q - 0 1
\* king c1, rook b1, queen side: the king is on its destination
Fen960LongKingStays ==
    [pl |-> <<"7", "k", "/", "6", "p", "1", "/", "6", "P", "1", "/", "8", "/", "8", "/", "7", "p", "/", "7", "P", "/", "1", "R", "K", "5">>,
     stm |-> "w", ca |-> <<"Q">>, ep |-> <<"-">>, hm |-> 0, fm |-> 1]
\* 7k/6p1/6P1/8/8/7p/7P/3RK3 w Q - 0 1
\* king e1, rook d1, queen side: the king jumps the rook, which stays
Fen960LongRookStays ==
    [pl |-> <<"7", "k", "/", "6", "p", "1", "/", "6", "P", "1", "/", "8", "/", "8", "/", "7", "p", "/", "7", "P", "/", "3", "R", "K", "3">>,
     stm |-> "w", ca |-> <<"Q">>, ep |-> <<"-">>, hm |-> 0, fm |-> 1]
\* 5kr1/7p/7P/8/8/4p1p1/4P1P1/5K2 b k - 0 1
\* Black: king f8, rook g8 change places
Fen960Black ==
    [pl |-> <<"5", "k", "r", "1", "/", "7", "p", "/", "7", "P", "/", "8", "/", "8", "/", "4", "p", "1", "p", "1", "/", "4", "P", "1", "P", "1", "/", "5", "K", "2">>,
     stm |-> "b", ca |-> <<"k">>, ep |-> <<"-">>, hm |-> 0, fm |-> 1]

Scenarios960 ==
    {Fen960Swap, Fen960KingStays, Fen960RookStays, Fen960LongSwap,
     Fen960LongKingStays, Fen960LongRookStays, Fen960Black}

Init960 ==
    /\ \E fenStr \in Scenarios960 : pos = set(fenStr, TRUE)
    /\ hist = <<>>
    /\ last = [op |-> "set", m |-> 0, prev |-> pos, base |-> pos]

Spec960 == Init960 /\ [][Next]_vars

---------------------------------------------------------------------------
(* see_ge, one pass of its loop at a time *)

\* 7k/8/4pn2/3p4/2PQ4/8/8/7K w - - 0 1
\* the knight that defends d5 is pinned by the queen on d4, which attacks
\* d5 herself
FenPinnerTrades ==
    [pl |-> <<"7", "k", "/", "8", "/", "4", "p", "n", "2", "/", "3", "p", "4", "/", "2", "P", "Q", "4", "/", "8", "/", "8", "/", "7", "K">>,
     stm |-> "w", ca |-> <<"-">>, ep |-> <<"-">>, hm |-> 0, fm |-> 1]

\* 7k/8/4pn2/3p4/8/8/3R4/3R3K w - - 0 1
\* a second rook stands behind the rook that attacks d5
FenRookBattery ==
    [pl |-> <<"7", "k", "/", "8", "/", "4", "p", "n", "2", "/", "3", "p", "4", "/", "8", "/", "8", "/", "3", "R", "4", "/", "3", "R", "3", "K">>,
     stm |-> "w", ca |-> <<"-">>, ep |-> <<"-">>, hm |-> 0, fm |-> 1]

SeeLoopScenarios == SeeScenarios \cup {FenPinnerTrades, FenRookBattery}

MaxSeeLoopPlies == 1

\* the thresholds see_ge is called with
SeeLoopThresholds == {-1282, -764, -188, 0, 1, 188, 189, 764}

\* see_ge(m, v) up to its loop: the answer if it returns before, the local
\* variables otherwise
see_ge_enter(P, m, v) ==
    LET done(r) == [op |-> "see_ge", m |-> m, v |-> v, running |-> FALSE, result |-> r,
                    passes |-> 0, stm |-> WHITE, balance |-> 0, relativeStm |-> TRUE,
                    occupied |-> {}, attackers |-> {},
                    pass |-> [stm |-> WHITE, stmAttackers |-> {}, occupied |-> {},
                              attackers |-> {}]] IN
    IF move_type(m) = CASTLING THEN done(see_ge_castling(v))
    ELSE LET from == from_sq(m)
             to == to_sq(m)
             nextVictim == type_of(piece_on(P, from))
             stm == Opp(color_of(piece_on(P, from)))
             start == see_ge_start(P, m, stm) IN
         IF start.balance < v THEN done(FALSE)
         ELSE IF nextVictim = KING THEN done(TRUE)
         ELSE LET balance == start.balance - PieceValueMg[nextVictim] IN
              IF balance >= v THEN done(TRUE)
              ELSE LET occupied == see_ge_occupied(P, m, stm)
                       attackers == attackers_to_occ(P, to, occupied) \cap occupied IN
                   [done(FALSE) EXCEPT !.running = TRUE, !.stm = stm,
                                       !.balance = balance, !.occupied = occupied,
                                       !.attackers = attackers]

\* one pass of while (true) { ... } from the local variables L
see_ge_pass(P, L) ==
    LET to == to_sq(L.m)
        stmAttackers == see_ge_stm_attackers(P, L.stm, L.occupied, L.attackers)
        seen == [L EXCEPT !.passes = L.passes + 1,
                          !.pass = [stm |-> L.stm, stmAttackers |-> stmAttackers,
                                    occupied |-> L.occupied, attackers |-> L.attackers]]
        return(X, r) == [X EXCEPT !.running = FALSE, !.result = r] IN
    IF stmAttackers = {} THEN return(seen, L.relativeStm)
    ELSE LET r == min_attacker(P, PAWN, to, stmAttackers, L.occupied, L.attackers)
             nextVictim == r.pt
             found == [seen EXCEPT !.occupied = r.occupied, !.attackers = r.attackers] IN
         IF nextVictim = KING
         THEN return(found, see_ge_king(P, L.stm, L.relativeStm, r.attackers))
         ELSE LET balance1 == IF L.relativeStm THEN L.balance + PieceValueMg[nextVictim]
                              ELSE L.balance - PieceValueMg[nextVictim]
                  relativeStm1 == ~L.relativeStm
                  next == [found EXCEPT !.balance = balance1,
                                        !.relativeStm = relativeStm1] IN
              IF relativeStm1 = (balance1 >= L.v) THEN return(next, relativeStm1)
              ELSE [next EXCEPT !.stm = Opp(L.stm)]

SeeLoopInit ==
    /\ \E fenStr \in SeeLoopScenarios : pos = set(fenStr, FALSE)
    /\ hist = <<>>
    /\ last = [op |-> "set", m |-> 0, prev |-> pos, base |-> pos]

\* no call of see_ge is under way
SeeLoopIdle == IF last.op = "see_ge" THEN ~last.running ELSE TRUE

SeeLoopDoMove ==
    /\ last.op # "see_ge"
    /\ Len(hist) < MaxSeeLoopPlies
    /\ DoMoveOf(MoveListLegal(pos))

\* see_ge is called once the position stands
SeeGeEnter ==
    /\ last.op # "see_ge"
    /\ \E m \in MoveListLegal(pos), v \in SeeLoopThresholds :
          last' = see_ge_enter(pos, m, v)
    /\ UNCHANGED <<pos, hist>>

SeeGePass ==
    /\ ~SeeLoopIdle
    /\ last' = see_ge_pass(pos, last)
    /\ UNCHANGED <<pos, hist>>

SeeLoopNext == SeeLoopDoMove \/ SeeGeEnter \/ SeeGePass

SpecSeeLoop == SeeLoopInit /\ [][SeeLoopNext]_vars

---------------------------------------------------------------------------
(* Moves and null moves made and taken back in positions whose halfmove    *)
(* clock does not start at zero                                            *)

\* 4k3/8/8/8/8/8/8/4K2R w K - 6 4
FenRookShuttleLate ==
    [pl |-> <<"4", "k", "3", "/", "8", "/", "8", "/", "8", "/", "8", "/", "8", "/", "8", "/", "4", "K", "2", "R">>,
     stm |-> "w", ca |-> <<"K">>, ep |-> <<"-">>, hm |-> 6, fm |-> 4]

\* rnbqkbnr/pppppppp/8/8/8/8/PPPPPPPP/RNBQKBNR w KQkq - 4 3
FenStartLate ==
    [pl |-> <<"r", "n", "b", "q", "k", "b", "n", "r", "/", "p", "p", "p", "p", "p", "p", "p", "p", "/", "8", "/", "8", "/", "8", "/", "8", "/", "P", "P", "P", "P", "P", "P", "P", "P", "/", "R", "N", "B", "Q", "K", "B", "N", "R">>,
     stm |-> "w", ca |-> <<"K", "Q", "k", "q">>, ep |-> <<"-">>, hm |-> 4, fm |-> 3]

ChainScenarios == {FenRookShuttleLate, FenStartLate}

MaxChainPlies == 4

ChainInit ==
    /\ \E fenStr \in ChainScenarios : pos = set(fenStr, FALSE)
    /\ hist = <<>>
    /\ last = [op |-> "set", m |-> 0, prev |-> pos, base |-> pos]

ChainDoMove ==
    /\ pos.nodes < MaxChainPlies
    /\ Len(hist) < MaxChainPlies
    /\ DoMoveOf(MoveListLegal(pos) \cap RepPool)

ChainDoNullMove ==
    /\ Len(hist) < MaxChainPlies
    /\ checkers(pos) = {}
    /\ pos' = do_null_move(pos)
    /\ hist' = Append(hist, [op |-> "do_null_move", m |-> 0, before |-> pos])
    /\ last' = [op |-> "do_null_move", m |-> 0, prev |-> pos, base |-> pos]

ChainNext == ChainDoMove \/ ChainDoNullMove \/ UndoMove \/ UndoNullMove

SpecChain == ChainInit /\ [][ChainNext]_vars

---------------------------------------------------------------------------
(* Pawns::probe and evaluate<Us> of pawns.cpp.  The pawn hash table of the *)
(* thread is kept in last.pawnsTable.  A Score is the sum of the table     *)
(* entries it was built from, each named by its table and indices.         *)

RANK_5 == 4

PawnsTableSize == 2

MaxPawnsPlies == 3

\* bitboard.h
rank_bb(r) == {s \in Squares : rank_of(s) = r}
adjacent_files_bb(f) == {s \in Squares : file_of(s) \in {f - 1, f + 1}}
forward_bb(c, s) ==
    {t \in Squares : file_of(t) = file_of(s) /\ relative_rank(c, t) > relative_rank(c, s)}
pawn_attack_span(c, s) ==
    {t \in adjacent_files_bb(file_of(s)) : relative_rank(c, t) > relative_rank(c, s)}
passed_pawn_mask(c, s) == forward_bb(c, s) \cup pawn_attack_span(c, s)
msb(bb) == CHOOSE s \in bb : \A t \in bb : s >= t
backmost_sq(c, bb) == IF c = WHITE THEN lsb(bb) ELSE msb(bb)
shift(d, bb) == {s + d : s \in bb} \cap Squares

\* an Entry as the table is allocated: every field zero
PawnsEntryZero ==
    [key |-> {}, score |-> SCORE_ZERO,
     passedPawns |-> [c \in Colors |-> {}],
     pawnAttacks |-> [c \in Colors |-> {}],
     pawnAttacksSpan |-> [c \in Colors |-> {}],
     kingSquares |-> [c \in Colors |-> SQ_A1],
     semiopenFiles |-> [c \in Colors |-> {}],
     pawnsOnSquares |-> [c \in Colors |-> [d \in Colors |-> 0]],
     asymmetry |-> 0, openFiles |-> 0]

\* pawnsTable[key]: the slot is picked by the low bits of the key, which are
\* the XOR of the low bits of the draws the key is made of
pawns_table_index(key) ==
    Cardinality({d \in key : d % PawnsTableSize = 1}) % PawnsTableSize

\* the flags evaluate<Us> computes for the pawn on s
pawn_flags(P, Us, s) ==
    LET Up == pawn_push(Us)
        f == file_of(s)
        ourPawns == pieces_cpt(P, Us, PAWN)
        theirPawns == pieces_cpt(P, Opp(Us), PAWN)
        stoppers == theirPawns \cap passed_pawn_mask(Us, s)
        lever == theirPawns \cap PawnAttacks[Us][s]
        leverPush == theirPawns \cap PawnAttacks[Us][s + Up]
        neighbours == ourPawns \cap adjacent_files_bb(f)
        phalanx == neighbours \cap rank_bb(rank_of(s))
        supported == neighbours \cap rank_bb(rank_of(s - Up))
        b == rank_bb(rank_of(backmost_sq(Us, neighbours \cup stoppers))) IN
    [opposed |-> (theirPawns \cap forward_bb(Us, s)) # {},
     lever |-> lever,
     doubled |-> (ourPawns \cap {s - Up}) # {},
     neighbours |-> neighbours,
     phalanx |-> phalanx,
     supported |-> supported,
     connected |-> supported \cup phalanx,
     backward |-> IF neighbours = {} \/ lever # {} \/ relative_rank(Us, s) >= RANK_5
                  THEN FALSE
                  ELSE ((b \cup shift(Up, b \cap adjacent_files_bb(f))) \cap stoppers) # {},
     passed |-> /\ XOR(XOR(stoppers, lever), leverPush) = {}
                /\ (ourPawns \cap forward_bb(Us, s)) = {}
                /\ Cardinality(supported) >= Cardinality(lever)
                /\ Cardinality(phalanx) >= Cardinality(leverPush)]

\* "Score this pawn": the table entries added to (+1) and taken off (-1) the
\* score for the pawn on s
pawn_score_terms(P, Us, s) ==
    LET fl == pawn_flags(P, Us, s)
        o == IF fl.opposed THEN 1 ELSE 0 IN
    (IF fl.neighbours = {} THEN {<<<<"Isolated", o, 0, 0, 0>>, -1>>}
     ELSE IF fl.backward THEN {<<<<"Backward", o, 0, 0, 0>>, -1>>}
     ELSE IF fl.supported = {} THEN {<<<<"Unsupported", 0, 0, 0, 0>>, -1>>}
     ELSE {})
    \cup (IF fl.connected # {}
          THEN {<<<<"Connected", o, IF fl.phalanx # {} THEN 1 ELSE 0,
                    IF Cardinality(fl.supported) > 1 THEN 1 ELSE 0,
                    relative_rank(Us, s)>>, 1>>}
          ELSE {})
    \cup (IF fl.doubled /\ fl.supported = {} THEN {<<<<"Doubled", 0, 0, 0, 0>>, -1>>} ELSE {})
    \cup (IF fl.lever # {} THEN {<<<<"Lever", relative_rank(Us, s), 0, 0, 0>>, 1>>} ELSE {})

\* sc + sign * (the terms ts)
RECURSIVE ScoreAddTerms(_, _, _)
ScoreAddTerms(sc, ts, sign) ==
    IF ts = {} THEN sc
    ELSE LET t == CHOOSE x \in ts : TRUE IN
         ScoreAddTerms(ScoreAdd(sc, t[1], sign * t[2]), ts \ {t}, sign)

\* the loop of evaluate<Us> over the pawns todo, added with the sign given
RECURSIVE pawns_evaluate_score(_, _, _, _, _)
pawns_evaluate_score(P, Us, todo, sc, sign) ==
    IF todo = {} THEN sc
    ELSE LET s == lsb(todo) IN
         pawns_evaluate_score(P, Us, todo \ {s},
                              ScoreAddTerms(sc, pawn_score_terms(P, Us, s), sign), sign)

\* evaluate<Us>(pos, e): the fields of e it writes
pawns_evaluate(P, Us, e) ==
    LET ourPawns == pieces_cpt(P, Us, PAWN)
        dark == {s \in ourPawns : (file_of(s) + rank_of(s)) % 2 = 0} IN
    [e EXCEPT !.passedPawns[Us] = {s \in ourPawns : pawn_flags(P, Us, s).passed},
              !.pawnAttacksSpan[Us] = UNION {pawn_attack_span(Us, s) : s \in ourPawns},
              !.semiopenFiles[Us] = (0..7) \ {file_of(s) : s \in ourPawns},
              !.kingSquares[Us] = SQ_NONE,
              !.pawnAttacks[Us] = UNION {PawnAttacks[Us][s] : s \in ourPawns},
              !.pawnsOnSquares[Us] = [d \in Colors |->
                    IF d = BLACK THEN Cardinality(dark)
                    ELSE P.pieceCount[make_piece(Us, PAWN)] - Cardinality(dark)]]

\* variant: a slot in use is taken as it is
pawns_probe_found_any(e, key) == e.key # {}

\* e->key == key
pawns_probe_found(e, key) == e.key = key

\* Pawns::probe(pos) on the table T: the table afterwards and the slot of
\* the entry returned
pawns_probe(P, T) ==
    LET key == St(P).pawnKey
        i == pawns_table_index(key)
        e == T[i] IN
    IF pawns_probe_found(e, key) THEN [table |-> T, slot |-> i]
    ELSE LET e1 == pawns_evaluate(P, BLACK, pawns_evaluate(P, WHITE, [e EXCEPT !.key = key]))
             sc == pawns_evaluate_score(P, BLACK, pieces_cpt(P, BLACK, PAWN),
                      pawns_evaluate_score(P, WHITE, pieces_cpt(P, WHITE, PAWN),
                                           SCORE_ZERO, 1), -1)
             e2 == [e1 EXCEPT !.score = sc,
                       !.asymmetry = Cardinality(XOR(e1.semiopenFiles[WHITE],
                                                     e1.semiopenFiles[BLACK])),
                       !.openFiles = Cardinality(e1.semiopenFiles[WHITE]
                                                 \cap e1.semiopenFiles[BLACK])] IN
         [table |-> [T EXCEPT ![i] = e2], slot |-> i]

\* 4k3/2p3p1/8/3P4/8/8/4P1P1/4K3 w - - 0 1
FenPawnsPassed ==
    [pl |-> <<"4", "k", "3", "/", "2", "p", "3", "p", "1", "/", "8", "/", "3", "P", "4", "/", "8", "/", "8", "/", "4", "P", "1", "P", "1", "/", "4", "K", "3">>,
     stm |-> "w", ca |-> <<"-">>, ep |-> <<"-">>, hm |-> 0, fm |-> 1]

\* 4k3/pp6/8/1P6/8/8/P7/4K3 b - - 0 1
FenPawnsLever ==
    [pl |-> <<"4", "k", "3", "/", "p", "p", "6", "/", "8", "/", "1", "P", "6", "/", "8", "/", "8", "/", "P", "7", "/", "4", "K", "3">>,
     stm |-> "b", ca |-> <<"-">>, ep |-> <<"-">>, hm |-> 0, fm |-> 1]

PawnsScenarios == {FenPawnsPassed, FenPawnsLever}

PawnsInit ==
    /\ \E fenStr \in PawnsScenarios : pos = set(fenStr, FALSE)
    /\ hist = <<>>
    /\ last = [op |-> "set", pawnsTable |-> [i \in 0..(PawnsTableSize - 1) |-> PawnsEntryZero],
               before |-> [i \in 0..(PawnsTableSize - 1) |-> PawnsEntryZero], slot |-> 0]

PawnsDoMove ==
    /\ Len(hist) < MaxPawnsPlies
    /\ \E m \in MoveListLegal(pos) :
          /\ pos' = do_move(pos, m, gives_check(pos, m))
          /\ hist' = Append(hist, [op |-> "do_move", m |-> m, before |-> pos])
    /\ last' = [last EXCEPT !.op = "do_move", !.before = last.pawnsTable]

PawnsProbe ==
    /\ last.op # "probe"
    /\ LET r == pawns_probe(pos, last.pawnsTable) IN
       last' = [op |-> "probe", pawnsTable |-> r.table, before |-> last.pawnsTable,
                slot |-> r.slot]
    /\ UNCHANGED <<pos, hist>>

PawnsNext == PawnsDoMove \/ PawnsProbe

SpecPawns == PawnsInit /\ [][PawnsNext]_vars

---------------------------------------------------------------------------
(* tt.h: TTEntry and the generation of the TranspositionTable.  pos holds  *)
(* the generation and one entry of the table.                              *)

\* a | b on unsigned numbers
RECURSIVE BitOr(_, _)
BitOr(a, b) ==
    IF a = 0 THEN b
    ELSE IF b = 0 THEN a
    ELSE 2 * BitOr(a \div 2, b \div 2) + (IF a % 2 = 1 \/ b % 2 = 1 THEN 1 ELSE 0)

\* the conversions to the field types
ToUint16(x) == x % 65536
ToUint8(x) == x % 256
ToInt16(x) == ((x + 32768) % 65536) - 32768
ToInt8(x) == ((x + 128) % 256) - 128

\* TTEntry::save(k, v, b, d, m, g)
tt_save(k, v, b, d, m, g) ==
    [key16 |-> ToUint16(k),
     move16 |-> ToUint16(m),
     value16 |-> ToInt16(v),
     genBound8 |-> ToUint8(BitOr(g, b)),
     depth8 |-> ToInt8(d)]

\* move(), value(), depth(), bound()
tt_move(e) == e.move16
tt_value(e) == e.value16
tt_depth(e) == e.depth8
tt_bound(e) == e.genBound8 % 4

\* variant: the generation advances by one
tt_new_search_by_one(generation) == ToUint8(generation + 1)

\* new_search(): generation += 4 on a uint8_t
tt_new_search(generation) == ToUint8(generation + 4)

\* values saved: key, value, depth, move; the last two rows do not fit the
\* fields
TTSaved ==
    {<<0, 0, 0, 0>>,
     <<65535, 32767, 127, 65535>>,
     <<4660, -32768, -128, 796>>,
     <<65535, 32768, 128, 65536>>,
     <<1, -32769, -129, 70000>>}

TTInit ==
    /\ pos = [generation |-> 0, entry |-> tt_save(0, 0, 0, 0, 0, 0)]
    /\ hist = <<>>
    /\ last = [op |-> "init", k |-> 0, v |-> 0, b |-> 0, d |-> 0, m |-> 0, g |-> 0]

TTNewSearch ==
    /\ pos' = [pos EXCEPT !.generation = tt_new_search(pos.generation)]
    /\ last' = [last EXCEPT !.op = "new_search"]
    /\ UNCHANGED hist

\* store() saves with the generation of the table
TTSave ==
    /\ \E a \in TTSaved, b \in 0..3 :
          /\ pos' = [pos EXCEPT !.entry = tt_save(a[1], a[2], b, a[3], a[4], pos.generation)]
          /\ last' = [op |-> "save", k |-> a[1], v |-> a[2], b |-> b, d |-> a[3],
                      m |-> a[4], g |-> pos.generation]
    /\ UNCHANGED hist

TTNext == TTNewSearch \/ TTSave

SpecTT == TTInit /\ [][TTNext]_vars

---------------------------------------------------------------------------
(* eval/nnue/char_array_buffer.cpp.  pos holds the characters in memory    *)
(* and begin_, end_, current_ as offsets into them; a char is the number   *)
(* it converts to as an int_type.                                          *)

MaxChars == 3

\* traits_type::eof()
CharEof == -1

\* the characters in memory: 'A', the terminator, and the char of value -1
Chars == {65, 0, -1}

\* the memory a buffer can be built over
RECURSIVE CharArrays(_)
CharArrays(n) ==
    IF n = 0 THEN {<<>>}
    ELSE CharArrays(n - 1)
         \cup {Append(a, c) : a \in {x \in CharArrays(n - 1) : Len(x) = n - 1}, c \in Chars}

\* *p
CharAt(B, p) == B.mem[p + 1]

\* std::strlen(str) for a string that starts at offset 0 of mem, which ends
\* with a terminator
RECURSIVE strlen(_, _)
strlen(mem, n) == IF mem[n + 1] = 0 THEN n ELSE strlen(mem, n + 1)

\* char_array_buffer(begin, end)
char_array_buffer(mem, begin, end) ==
    [mem |-> mem, begin_ |-> begin, end_ |-> end, current_ |-> begin]

\* char_array_buffer(str)
char_array_buffer_str(mem) ==
    [mem |-> mem, begin_ |-> 0, end_ |-> strlen(mem, 0), current_ |-> 0]

\* underflow(): the buffer afterwards and the value returned
cab_underflow(B) ==
    IF B.current_ = B.end_ THEN [buf |-> B, ret |-> CharEof]
    ELSE [buf |-> B, ret |-> CharAt(B, B.current_)]

\* variant: current_ moves on at the end as well
cab_uflow_past_end(B) ==
    [buf |-> [B EXCEPT !.current_ = B.current_ + 1],
     ret |-> IF B.current_ = B.end_ THEN CharEof ELSE CharAt(B, B.current_)]

\* uflow()
cab_uflow(B) ==
    IF B.current_ = B.end_ THEN [buf |-> B, ret |-> CharEof]
    ELSE [buf |-> [B EXCEPT !.current_ = B.current_ + 1], ret |-> CharAt(B, B.current_)]

\* pbackfail(ch)
cab_pbackfail(B, ch) ==
    IF B.current_ = B.begin_ \/ (ch # CharEof /\ ch # CharAt(B, B.current_ - 1))
    THEN [buf |-> B, ret |-> CharEof]
    ELSE [buf |-> [B EXCEPT !.current_ = B.current_ - 1],
          ret |-> CharAt(B, B.current_ - 1)]

\* showmanyc()
cab_showmanyc(B) == [buf |-> B, ret |-> B.end_ - B.current_]

CabInit ==
    /\ \/ \E mem \in CharArrays(MaxChars) : \E begin \in 0..Len(mem) :
             \E end \in begin..Len(mem) : pos = char_array_buffer(mem, begin, end)
       \/ \E mem \in CharArrays(MaxChars - 1) : pos = char_array_buffer_str(Append(mem, 0))
    /\ hist = <<>>
    /\ last = [op |-> "char_array_buffer", ch |-> CharEof, ret |-> CharEof,
               before |-> pos.current_]

\* the call made: the buffer it leaves and what it returned
CabDone(op, ch, r) ==
    /\ pos' = r.buf
    /\ last' = [op |-> op, ch |-> ch, ret |-> r.ret, before |-> pos.current_]

CabUnderflow ==
    /\ CabDone("underflow", CharEof, cab_underflow(pos))
    /\ UNCHANGED hist

CabUflow ==
    /\ CabDone("uflow", CharEof, cab_uflow(pos))
    /\ UNCHANGED hist

CabPbackfail ==
    /\ \E ch \in Chars \cup {CharEof, 255} :
          CabDone("pbackfail", ch, cab_pbackfail(pos, ch))
    /\ UNCHANGED hist

CabShowmanyc ==
    /\ CabDone("showmanyc", CharEof, cab_showmanyc(pos))
    /\ UNCHANGED hist

CabNext == CabUnderflow \/ CabUflow \/ CabPbackfail \/ CabShowmanyc

SpecCab == CabInit /\ [][CabNext]_vars

---------------------------------------------------------------------------
(* C1 *)

ListedSquares(P, pc) == {P.pieceList[pc][i] : i \in 0..(P.pieceCount[pc] - 1)}

---------------------------------------------------------------------------
(* C2 *)

\* C2: in every position reached from set() by do_move, undo_move,
\* do_null_move and undo_null_move the key kept in the StateInfo equals the
\* key set_state computes from the board, the side to move, the castling
\* rights and the en-passant square
C2_KeyIsRecomputable == St(pos).key = set_state(pos, St(pos)).key

\* a move that gave up a castling right has been made
C2_Witness ==
    /\ last.op = "do_move"
    /\ St(pos).castlingRights # St(last.prev).castlingRights
    /\ St(pos).key # {}

---------------------------------------------------------------------------
(* C3 *)

BoardViewsAgree(P) ==
    /\ \A pc \in Pieces :
        LET onBoard == {s \in Squares : P.board[s] = pc}
            inBitboards == P.byTypeBB[type_of(pc)] \cap P.byColorBB[color_of(pc)] IN
        onBoard = inBitboards /\ inBitboards = ListedSquares(P, pc)
    /\ \A pt1, pt2 \in PieceTypes : pt1 # pt2 => P.byTypeBB[pt1] \cap P.byTypeBB[pt2] = {}
    /\ P.byColorBB[WHITE] \cap P.byColorBB[BLACK] = {}
    /\ P.byColorBB[WHITE] \cup P.byColorBB[BLACK] = P.byTypeBB[ALL_PIECES]
    /\ \A s \in Squares :
        P.board[s] # NO_PIECE => P.pieceList[P.board[s]][P.index[s]] = s

\* C3: after every do_move and undo_move the board array, the bitboards
\* and the piece lists hold the same pieces on the same squares, the type
\* bitboards are pairwise disjoint, the colour bitboards are disjoint with
\* the all-pieces bitboard as their union, and pieceList[pc][index[s]] = s
\* on every occupied square
C3_BoardViewsAgree ==
    last.op \in {"do_move", "undo_move"} => BoardViewsAgree(pos)

\* an en-passant capture has been made: the captured pawn left a square
\* other than the destination
C3_Witness ==
    /\ last.op = "do_move"
    /\ move_type(last.m) = ENPASSANT
    /\ St(pos).capturedPiece # NO_PIECE
    /\ pos.board[to_sq(last.m)] # NO_PIECE

---------------------------------------------------------------------------
(* C4 *)

\* C4: after do_move(m, newSt, gives_check(m)) checkersBB is the set of the
\* mover's pieces that attack the king of the new side to move
C4_CheckersAreTheAttackers ==
    last.op = "do_move" =>
        St(pos).checkersBB =
            AttackingPieces(pos, Opp(pos.sideToMove), square_king(pos, pos.sideToMove))

\* an en-passant capture has discovered a check by a piece other than the pawn
C4_Witness ==
    /\ last.op = "do_move"
    /\ move_type(last.m) = ENPASSANT
    /\ St(pos).checkersBB # {}
    /\ to_sq(last.m) \notin St(pos).checkersBB

---------------------------------------------------------------------------
(* C5 *)

\* C5: for every pseudo-legal move m, legal(m) is true exactly when the
\* mover's king is not attacked after m
C5_LegalIffKingSafe ==
    /\ \A m \in generate(pos) : legal(pos, m) <=> KingSafeAfter(pos, m)
    /\ \A from \in Squares, to \in Squares :
          pseudo_legal(pos, make_move(from, to)) =>
              (legal(pos, make_move(from, to)) <=> KingSafeAfter(pos, make_move(from, to)))

\* the generator emits an en-passant capture that would leave the king
\* attacked, and legal refuses it
C5_Witness ==
    \E m \in generate(pos) :
        move_type(m) = ENPASSANT /\ ~legal(pos, m) /\ ~KingSafeAfter(pos, m)

---------------------------------------------------------------------------
(* C6 *)

\* C6: is_draw(ply) reports a repetition exactly when, among the records
\* 4, 6, ... plies back and no further than min(rule50, pliesFromNull), one
\* with the current key lies at a distance i < ply or two lie at distances
\* i >= ply; with fewer than 4 reversible plies there is none
C6_RepetitionRule ==
    ~is_draw_rule50(pos) =>
        /\ \A ply \in Plies(pos) : is_draw(pos, ply) <=> Repetition(pos, ply)
        /\ Min(St(pos).rule50, St(pos).pliesFromNull) < 4 =>
              \A ply \in Plies(pos) : ~is_draw(pos, ply)

\* the position has come back twice before the root, and once is not enough
C6_Witness ==
    /\ Cardinality(RepetitionMatches(pos)) = 2
    /\ \E ply \in Plies(pos) :
        /\ \A i \in RepetitionMatches(pos) : i >= ply
        /\ is_draw(pos, ply)
    /\ \E P \in {hist[j].before : j \in 1..Len(hist)} :
        /\ Cardinality(RepetitionMatches(P)) = 1
        /\ ~is_draw(P, 4)
        /\ is_draw(P, 5)

---------------------------------------------------------------------------
(* C7 *)

\* the same pieces on the same squares, the same side to move, castling
\* rights and en-passant square
SamePosition(P, Q) ==
    /\ P.board = Q.board
    /\ P.sideToMove = Q.sideToMove
    /\ St(P).castlingRights = St(Q).castlingRights
    /\ St(P).epSquare = St(Q).epSquare

\* the position i plies back in the line played
Earlier(i) == hist[Len(hist) - i + 1].before

\* the last i plies were moves of pieces other than pawns to empty squares,
\* and they lead back to the position they started from
ReversibleCycle(i) ==
    /\ i \in 1..Len(hist)
    /\ \A j \in 1..i :
        LET h == hist[Len(hist) - j + 1] IN
        /\ h.op = "do_move"
        /\ move_type(h.m) = NORMAL
        /\ type_of(moved_piece(h.before, h.m)) # PAWN
        /\ empty(h.before, to_sq(h.m))
    /\ SamePosition(pos, Earlier(i))

\* C7: a cycle of i reversible moves that restores the pieces, the rights
\* and the side to move restores the key; is_draw(ply) is then true for
\* ply > i, and false for ply <= i when the position has occurred only once
\* before.  From the start position the four knight moves out and back are
\* such a cycle with i = 4.
C7_CycleRestoresKey ==
    \A i \in 1..Len(hist) :
        ReversibleCycle(i) =>
            /\ St(pos).key = St(Earlier(i)).key
            /\ \A ply \in Plies(pos) : ply > i => is_draw(pos, ply)
            /\ (\A j \in 1..Len(hist) : ReversibleCycle(j) => j = i) =>
                  \A ply \in Plies(pos) : ply <= i => ~is_draw(pos, ply)

\* the start position after Nf3 Nf6 Ng1 Ng8
C7_Witness ==
    /\ Len(hist) = 4
    /\ hist[1].before = set(FenStart, FALSE)
    /\ <<hist[1].m, hist[2].m, hist[3].m, hist[4].m>> =
          <<make_move(6, 21), make_move(62, 45), make_move(21, 6), make_move(45, 62)>>
    /\ ReversibleCycle(4)
    /\ St(pos).key = St(hist[1].before).key
    /\ is_draw(pos, 5)
    /\ ~is_draw(pos, 4)

---------------------------------------------------------------------------
(* C8 *)

\* C8 as stated: with kings only, the halfmove clock starting at 0 and king
\* moves only, is_draw is false after each of the first 99 halfmoves and
\* true after the 100th and every later one (is_draw is asked with ply = 1,
\* the value that reports the fewest repetitions)
C8_FalseBeforeHundredth ==
    pos.gamePly >= 1 => (is_draw(pos, 1) <=> pos.gamePly >= 100)

\* C8, amended: is_draw is true after the 100th halfmove and after every
\* later one; after each of the first 99 the fifty-move clause is false and
\* is_draw is true only for a repetition, so it is false as long as no
\* position has come back
C8_DrawFromHundredth ==
    pos.gamePly >= 1 =>
        \A ply \in Plies(pos) :
            /\ pos.gamePly >= 100 => is_draw(pos, ply)
            /\ pos.gamePly < 100 =>
                  /\ ~is_draw_rule50(pos)
                  /\ is_draw(pos, ply) <=> Repetition(pos, ply)

\* the 100th halfmove of a game in which no position has come back
C8_Witness ==
    /\ pos.gamePly = 100
    /\ St(pos).rule50 = 100
    /\ RepetitionMatches(pos) = {}
    /\ is_draw(pos, 1)
    /\ ~is_draw(last.prev, 1)

---------------------------------------------------------------------------
(* C9 *)

\* C9: with rule50 > 99 is_draw is true when the side to move is not in
\* check or has a legal move; when it is checkmated the fifty-move clause
\* does not apply and only a repetition makes is_draw true
C9_FiftyMoveClause ==
    St(pos).rule50 > 99 =>
        IF ~InCheck(pos) \/ HasLegalMove(pos)
        THEN \A ply \in Plies(pos) : is_draw(pos, ply)
        ELSE \A ply \in Plies(pos) : is_draw(pos, ply) <=> Repetition(pos, ply)

\* checkmate with rule50 = 100
C9_Witness ==
    /\ St(pos).rule50 > 99
    /\ InCheck(pos)
    /\ ~HasLegalMove(pos)
    /\ ~is_draw(pos, 1)

---------------------------------------------------------------------------
(* C10 *)

\* C10: after do_move(m) rule50 is 0 when m moves a pawn or captures an
\* enemy piece, and the previous rule50 + 1 otherwise; castling, encoded
\* as the king taking its own rook, does not reset it
C10_Rule50 ==
    last.op = "do_move" =>
        LET P == last.prev
            pawnMove == type_of(moved_piece(P, last.m)) = PAWN
            target == piece_on(P, to_sq(last.m))
            captures == \/ move_type(last.m) = ENPASSANT
                        \/ target # NO_PIECE /\ color_of(target) # P.sideToMove IN
        St(pos).rule50 = IF pawnMove \/ captures THEN 0 ELSE St(P).rule50 + 1

\* castling has been played and the counter went on
C10_Witness ==
    /\ last.op = "do_move"
    /\ move_type(last.m) = CASTLING
    /\ piece_on(last.prev, to_sq(last.m)) = make_piece(last.prev.sideToMove, ROOK)
    /\ St(pos).rule50 = St(last.prev).rule50 + 1

---------------------------------------------------------------------------
(* C11 *)

\* the squares next to s on its rank
Beside(s) == {t \in Squares : rank_of(t) = rank_of(s) /\ Abs(file_of(t) - file_of(s)) = 1}

\* in P a pawn of colour c has just made a double push to `landing`, and a
\* pawn of the other colour stands beside it
DoublePushBesidePawn(P, c, landing) ==
    /\ piece_on(P, landing) = make_piece(c, PAWN)
    /\ relative_rank(c, landing) = 3
    /\ empty(P, landing - pawn_push(c))
    /\ empty(P, landing - 2 * pawn_push(c))
    /\ \E t \in Beside(landing) : piece_on(P, t) = make_piece(Opp(c), PAWN)

\* the square the en-passant field of a position string names, SQ_NONE for "-"
EpField(fenStr) ==
    IF Len(fenStr.ep) = 2 /\ fenStr.ep[1] \in DOMAIN FileLetter /\ fenStr.ep[2] \in DOMAIN DigitValue
    THEN make_square(FileLetter[fenStr.ep[1]], DigitValue[fenStr.ep[2]] - 1)
    ELSE SQ_NONE

\* C11: the en-passant square is set by do_move exactly for a double pawn
\* push that lands beside a pawn of the side now to move, and is then the
\* skipped square; every other do_move and every do_null_move leaves it
\* SQ_NONE; a set en-passant square lies on relative rank 6 of the side to
\* move, behind a pawn that meets the same condition; set() keeps the
\* en-passant field of the position string under the same condition
C11_EnPassantSquare ==
    LET ep == ep_square(pos)
        them == Opp(pos.sideToMove) IN
    /\ last.op = "do_move" =>
          LET from == from_sq(last.m)
              to == to_sq(last.m)
              double == /\ type_of(moved_piece(last.prev, last.m)) = PAWN
                        /\ Abs(to - from) = 16 IN
          IF double /\ \E t \in Beside(to) : piece_on(pos, t) = make_piece(pos.sideToMove, PAWN)
          THEN ep = (from + to) \div 2
          ELSE ep = SQ_NONE
    /\ last.op = "do_null_move" => ep = SQ_NONE
    /\ ep # SQ_NONE =>
          /\ relative_rank(pos.sideToMove, ep) = RANK_6
          /\ DoublePushBesidePawn(pos, them, ep + pawn_push(them))
    /\ last.op = "set" =>
          \A fenStr \in Scenarios :
              pos = set(fenStr, FALSE) =>
                  LET sq == EpField(fenStr) IN
                  ep = IF /\ sq # SQ_NONE
                          /\ relative_rank(pos.sideToMove, sq) = RANK_6
                          /\ DoublePushBesidePawn(pos, them, sq + pawn_push(them))
                       THEN sq ELSE SQ_NONE

\* a double push has landed beside no pawn and has set no en-passant
\* square, in a game whose position string named a square set() refused
C11_Witness ==
    /\ last.op = "do_move"
    /\ type_of(moved_piece(last.prev, last.m)) = PAWN
    /\ Abs(to_sq(last.m) - from_sq(last.m)) = 16
    /\ ep_square(pos) = SQ_NONE
    /\ last.prev = set(FenEpIgnored, FALSE)
    /\ EpField(FenEpIgnored) # SQ_NONE
    /\ ep_square(last.prev) = SQ_NONE

---------------------------------------------------------------------------
(* C12 *)

RightColor(cr) == IF cr \in {WHITE_OO, WHITE_OOO} THEN WHITE ELSE BLACK
\* the position the StateInfo chain started from
Root == IF hist = <<>> THEN pos ELSE hist[1].before
\* the squares the king and the rook of a right stood on when set() granted it
RightSquares(cr) == {square_king(Root, RightColor(cr)), Root.castlingRookSquare[cr]}
RemovedRights == St(last.prev).castlingRights \ St(pos).castlingRights
CastlingDraws == ZobristCastling(CastlingRights)

\* C12: after do_move(m) the castling rights are the previous ones without
\* castlingRightsMask[from] | castlingRightsMask[to]; a right held before is
\* lost exactly when the move starts or ends on the original square of its
\* king or of its rook; forward play (do_move, do_null_move) never adds a
\* right; and the castling part of the key changes by exactly the draws of
\* the rights removed.
C12_CastlingRights ==
    /\ last.op = "do_move" =>
          LET from == from_sq(last.m)
              to == to_sq(last.m) IN
          /\ St(pos).castlingRights =
                St(last.prev).castlingRights
                    \ (last.prev.castlingRightsMask[from] \cup last.prev.castlingRightsMask[to])
          /\ \A cr \in St(last.prev).castlingRights :
                cr \in RemovedRights <=> ({from, to} \cap RightSquares(cr)) # {}
          /\ XOR(St(pos).key, St(last.prev).key) \cap CastlingDraws = ZobristCastling(RemovedRights)
    /\ last.op \in {"do_move", "do_null_move"} =>
          St(pos).castlingRights \subseteq St(last.prev).castlingRights
    /\ \A i \in 1..Len(hist) : St(pos).castlingRights \subseteq St(hist[i].before).castlingRights

\* the bishop has captured the rook on a1 while White held both rights: the
\* queen-side right alone is gone
C12_Witness ==
    /\ last.op = "do_move"
    /\ St(last.prev).castlingRights = {WHITE_OO, WHITE_OOO}
    /\ to_sq(last.m) = SQ_A1
    /\ color_of(piece_on(pos, SQ_A1)) = BLACK
    /\ St(pos).castlingRights = {WHITE_OO}

---------------------------------------------------------------------------
(* C13 *)

\* C13: do_null_move moves no piece: the board, the bitboards, the piece
\* counts and lists, castlingRights, pawnKey, materialKey, nonPawnMaterial
\* and psq are those of the position before; the side to move is flipped,
\* epSquare is SQ_NONE, and the key differs from the old one by exactly
\* Zobrist::side, and Zobrist::enpassant of the old en-passant file when an
\* en-passant square was set.
C13_NullMoveFrame ==
    last.op = "do_null_move" =>
        LET old == St(last.prev)
            new == St(pos) IN
        /\ pos.board = last.prev.board
        /\ pos.byTypeBB = last.prev.byTypeBB
        /\ pos.byColorBB = last.prev.byColorBB
        /\ pos.pieceCount = last.prev.pieceCount
        /\ pos.pieceList = last.prev.pieceList
        /\ pos.index = last.prev.index
        /\ new.castlingRights = old.castlingRights
        /\ new.pawnKey = old.pawnKey
        /\ new.materialKey = old.materialKey
        /\ new.nonPawnMaterial = old.nonPawnMaterial
        /\ new.psq = old.psq
        /\ pos.sideToMove = Opp(last.prev.sideToMove)
        /\ new.epSquare = SQ_NONE
        /\ XOR(new.key, old.key) =
              ZobristSide \cup (IF old.epSquare # SQ_NONE
                                THEN ZobristEnpassant(file_of(old.epSquare)) ELSE {})

\* a null move made while an en-passant square was set, with pieces and
\* pawns of both sides on the board
C13_Witness ==
    /\ last.op = "do_null_move"
    /\ ep_square(last.prev) # SQ_NONE
    /\ St(pos).nonPawnMaterial[WHITE] > 0
    /\ St(pos).psq # SCORE_ZERO
    /\ ~(ZobristEnpassant(file_of(ep_square(last.prev))) \subseteq St(pos).key)

---------------------------------------------------------------------------
(* C14 *)

\* the undo now finished was made directly after its do_null_move
NullUndoneDirectly ==
    /\ last.op = "undo_null_move"
    /\ last.prev = do_null_move(last.base)

\* C14: do_null_move followed by undo_null_move restores the position
\* exactly: the side to move, the top of the StateInfo chain and with it
\* key, epSquare, rule50, pliesFromNull and the check information are those
\* from before the null move, gamePly is the same, and so is every other
\* field of the Position.
C14_NullUndoRestores ==
    NullUndoneDirectly =>
        /\ pos.sideToMove = last.base.sideToMove
        /\ Len(pos.states) = Len(last.base.states)
        /\ St(pos) = St(last.base)
        /\ pos.gamePly = last.base.gamePly
        /\ pos.gamePly = last.prev.gamePly
        /\ pos = last.base

\* the null move undone had cleared an en-passant square, changed the key
\* and the counters, and turned the check information to the other king
C14_Witness ==
    /\ NullUndoneDirectly
    /\ ep_square(pos) # SQ_NONE
    /\ ep_square(last.prev) = SQ_NONE
    /\ St(last.prev).key # St(pos).key
    /\ St(last.prev).rule50 = St(pos).rule50 + 1
    /\ St(last.prev).checkSquares # St(pos).checkSquares

---------------------------------------------------------------------------
(* C15 *)

\* C15: a null move is made only from a position whose side to move is not
\* in check; the state it pushes has an empty checkersBB, and rightly so: on
\* the board the king of the new side to move is not attacked.  Whenever a
\* null move is the operation to be undone next, checkersBB is empty, which
\* is what undo_null_move asserts on entry.
C15_NullMoveNotInCheck ==
    /\ last.op = "do_null_move" =>
          /\ checkers(last.prev) = {}
          /\ ~InCheck(last.prev)
          /\ checkers(pos) = {}
          /\ ~InCheck(pos)
    /\ (hist # <<>> /\ Top.op = "do_null_move") => checkers(pos) = {}

\* a null move answers a move, and a move that gave check has been made and
\* taken back above a null move
C15_Witness ==
    /\ Len(hist) = 1
    /\ Top.op = "do_null_move"
    /\ last.op = "undo_move"
    /\ checkers(last.prev) # {}
    /\ checkers(pos) = {}

---------------------------------------------------------------------------
(* C16 *)

Kings(P, c) == pieces_cpt(P, c, KING)

\* C16: after any sequence of legal do_move and undo_move calls (and null
\* moves) each side has exactly one king on the board and in its piece
\* list; do_move captures no king and makes none: the piece it captures is
\* not a king, a promotion puts a piece of type KNIGHT..QUEEN of the mover
\* on the destination, and the kings are those of the position before; and
\* undo_move puts back, on its square, the piece the move had captured and
\* the pawn a promotion had replaced.
C16_OneKingEach ==
    /\ \A c \in Colors :
          /\ Cardinality(Kings(pos, c)) = 1
          /\ pos.pieceCount[make_piece(c, KING)] = 1
          /\ piece_on(pos, square_king(pos, c)) = make_piece(c, KING)
    /\ last.op = "do_move" =>
          /\ type_of(St(pos).capturedPiece) # KING
          /\ \A c \in Colors :
                \/ Kings(pos, c) = Kings(last.prev, c)
                \/ piece_on(last.prev, from_sq(last.m)) = make_piece(c, KING)
          /\ move_type(last.m) = PROMOTION =>
                /\ promotion_type(last.m) \in KNIGHT..QUEEN
                /\ piece_on(pos, to_sq(last.m)) =
                      make_piece(last.prev.sideToMove, promotion_type(last.m))
    /\ UndoneDirectly =>
          /\ pos.board = last.base.board
          /\ pos.pieceCount = last.base.pieceCount
          /\ St(last.prev).capturedPiece # NO_PIECE =>
                piece_on(pos, undo_move_capsq(last.m, pos.sideToMove, to_sq(last.m)))
                    = St(last.prev).capturedPiece
          /\ move_type(last.m) = PROMOTION =>
                piece_on(pos, from_sq(last.m)) = make_piece(pos.sideToMove, PAWN)

\* a pawn has captured a knight and promoted, and the move has been undone
C16_Witness ==
    /\ UndoneDirectly
    /\ move_type(last.m) = PROMOTION
    /\ type_of(piece_on(last.prev, to_sq(last.m))) \in KNIGHT..QUEEN
    /\ type_of(St(last.prev).capturedPiece) = KNIGHT
    /\ piece_on(pos, to_sq(last.m)) = St(last.prev).capturedPiece

---------------------------------------------------------------------------
(* C17 *)

\* the pieces of colour c that stand in the occupancy occ and attack `to`
ExchangeAttackers(P, c, to, occ) ==
    {a \in pieces_c(P, c) \cap occ :
        LET pt == type_of(piece_on(P, a)) IN
        IF pt = PAWN THEN to \in attacks_from_pawn(a, c)
        ELSE to \in attacks_bb(pt, a, occ)}

\* the least valuable of the pieces on the squares A (the one on the lowest
\* square among equals)
LeastAttacker(P, A) ==
    CHOOSE a \in A : \A b \in A :
        \/ type_of(piece_on(P, a)) < type_of(piece_on(P, b))
        \/ type_of(piece_on(P, a)) = type_of(piece_on(P, b)) /\ a <= b

\* what the side c, to move, wins at best from a piece of value `victim` on
\* `to`: it may stop (0), or capture with its least valuable attacker and
\* leave that piece to the other side; its king captures only when no
\* attacker of the other side is left.  With `pins`, the pieces in
\* blockersForKing[c] are left out as long as every pinner is in occ.
RECURSIVE ExchangeGain(_, _, _, _, _, _)
ExchangeGain(P, c, to, occ, victim, pins) ==
    LET all == ExchangeAttackers(P, c, to, occ)
        A == IF pins /\ St(P).pinnersForKing[c] \subseteq occ
             THEN all \ St(P).blockersForKing[c] ELSE all IN
    IF A = {} THEN 0
    ELSE LET a == LeastAttacker(P, A)
             pt == type_of(piece_on(P, a)) IN
         IF pt = KING /\ ExchangeAttackers(P, Opp(c), to, occ) # {} THEN 0
         ELSE Max(0, victim - ExchangeGain(P, Opp(c), to, occ \ {a}, PieceValueMg[pt], pins))

\* the static exchange value of the move m: the value of what it captures
\* less what the opponent wins from the piece that has moved to `to`
ExchangeValue(P, m, pins) ==
    LET from == from_sq(m)
        to == to_sq(m)
        us == color_of(piece_on(P, from))
        ep == move_type(m) = ENPASSANT
        won == IF ep THEN PieceValueMg[PAWN] ELSE PieceValue(piece_on(P, to))
        occ == ((pieces(P) \ {from}) \ (IF ep THEN {to - pawn_push(us)} ELSE {})) \cup {to} IN
    won - ExchangeGain(P, Opp(us), to, occ, PieceValueMg[type_of(piece_on(P, from))], pins)

\* the legal captures of the position, castling apart
Captures(P) == {m \in MoveListLegal(P) : move_type(m) # CASTLING /\ capture(P, m)}

\* thresholds: fixed ones, and the ones around the value x
Thresholds(x) == {-1282, -188, -1, 0, 1, 188, 189, 764, 1282} \cup {x - 1, x, x + 1}

\* the two captures of the pawn on d5 in FenExchange: Bg2xd5 and Rd1xd5
BishopTakes == make_move(make_square(6, 1), make_square(3, 4))
RookTakes == make_move(make_square(3, 0), make_square(3, 4))

\* C17 as stated: for every capture m and every threshold v, see_ge(m, v)
\* is true iff the minimax value of the capture sequence on the destination
\* square is at least v, every attacker taking part
C17_SeeIsMinimax ==
    \A m \in Captures(pos) : \A v \in Thresholds(ExchangeValue(pos, m, FALSE)) :
        see_ge(pos, m, v) <=> ExchangeValue(pos, m, FALSE) >= v

\* C17, amended: see_ge(m, v) is true iff the minimax value of the capture
\* sequence is at least v, where sides alternate, each may stop or recapture
\* with its least valuable attacker, X-ray attackers join as pieces leave, a
\* king captures only when no enemy attacker remains, and a piece pinned to
\* its own king takes no part while every pinner of that king is still on
\* its square.  With the pawn defended by one knight and attacked by rook and
\* bishop: taking with the bishop wins pawn and knight for the bishop,
\* taking with the rook loses the rook for pawn and knight.
C17_SeeIsMinimaxWithPins ==
    /\ \A m \in Captures(pos) : \A v \in Thresholds(ExchangeValue(pos, m, TRUE)) :
          see_ge(pos, m, v) <=> ExchangeValue(pos, m, TRUE) >= v
    /\ pos.board = set(FenExchange, FALSE).board =>
          /\ ExchangeValue(pos, BishopTakes, TRUE)
                = PieceValueMg[PAWN] - PieceValueMg[BISHOP] + PieceValueMg[KNIGHT]
          /\ ExchangeValue(pos, RookTakes, TRUE)
                = PieceValueMg[PAWN] - PieceValueMg[ROOK] + PieceValueMg[KNIGHT]

\* the pawn of the example can be taken by rook and by bishop, and in some
\* position a capture meets a pinned defender
C17_Witness ==
    /\ pos.board = set(FenExchange, FALSE).board
    /\ {BishopTakes, RookTakes} \subseteq Captures(pos)
    /\ see_ge(pos, BishopTakes, 126)
    /\ ~see_ge(pos, BishopTakes, 127)
    /\ ~see_ge(pos, RookTakes, -329)

---------------------------------------------------------------------------
(* C19 *)

\* C19: for a castling move see_ge(m, v) is (0 >= v) whatever the position;
\* for an en-passant capture see_ge starts with a balance of one pawn and
\* with the occupancy of the board less the mover's origin and the square
\* of the captured pawn, the destination being occupied, and its answer is
\* that of the exchange on the destination square from there.
C19_SeeCastlingAndEnPassant ==
    \A m \in MoveListLegal(pos) :
        /\ move_type(m) = CASTLING =>
              \A v \in Thresholds(0) : see_ge(pos, m, v) <=> 0 >= v
        /\ move_type(m) = ENPASSANT =>
              LET us == pos.sideToMove
                  capsq == make_square(file_of(to_sq(m)), rank_of(from_sq(m))) IN
              /\ see_ge_start(pos, m, Opp(us)).balance = PieceValueMg[PAWN]
              /\ see_ge_occupied(pos, m, Opp(us)) =
                    (pieces(pos) \ {from_sq(m), capsq}) \cup {to_sq(m)}
              /\ capsq # to_sq(m)
              /\ \A v \in Thresholds(ExchangeValue(pos, m, TRUE)) :
                    see_ge(pos, m, v) <=> ExchangeValue(pos, m, TRUE) >= v

\* White can castle and can take en passant on d6, where the answer depends
\* on the rook behind the captured pawn
C19_Witness ==
    /\ \E m \in MoveListLegal(pos) :
          move_type(m) = CASTLING /\ see_ge(pos, m, 0) /\ ~see_ge(pos, m, 1)
    /\ \E m \in MoveListLegal(pos) :
          /\ move_type(m) = ENPASSANT
          /\ (attackers_to(pos, to_sq(m)) \cap pieces_c(pos, Opp(pos.sideToMove))) # {}
          /\ see_ge(pos, m, PieceValueMg[PAWN])
          /\ ~see_ge(pos, m, PieceValueMg[PAWN] + 1)

---------------------------------------------------------------------------
(* C18 *)

\* the pieces other than pawns, and other than the capturing piece, on the
\* squares next to the destination of m
Blast(P, m) ==
    {s \in KingAttacks[to_sq(m)] \ {from_sq(m)} :
        piece_on(P, s) # NO_PIECE /\ type_of(piece_on(P, s)) # PAWN}

RECURSIVE SumValues(_, _)
SumValues(P, S) ==
    IF S = {} THEN 0
    ELSE LET s == lsb(S) IN PieceValue(piece_on(P, s)) + SumValues(P, S \ {s})

\* the one-shot blast value of the capture m: the captured piece, plus the
\* enemy pieces and minus the own pieces destroyed next to the destination,
\* minus the capturing piece; VALUE_MATE when the enemy king is destroyed
BlastValue(P, m) ==
    LET us == color_of(piece_on(P, from_sq(m)))
        won == IF move_type(m) = ENPASSANT THEN PieceValueMg[PAWN]
               ELSE PieceValue(piece_on(P, to_sq(m))) IN
    IF (Blast(P, m) \cap Kings(P, Opp(us))) # {} THEN VALUE_MATE
    ELSE won + SumValues(P, Blast(P, m) \cap pieces_c(P, Opp(us)))
             - SumValues(P, Blast(P, m) \cap pieces_c(P, us))
             - PieceValue(piece_on(P, from_sq(m)))

\* the captures an Atomic game allows on the board of P: by a piece other
\* than the king, with the own king not next to the destination
AtomicCaptures(P) ==
    {m \in generate(P) :
        /\ move_type(m) # CASTLING
        /\ capture(P, m)
        /\ type_of(piece_on(P, from_sq(m))) # KING
        /\ square_king(P, P.sideToMove) \notin KingAttacks[to_sq(m)]}

\* C18 as stated: in the Atomic variant, for a capture m, see_ge(m, v) is
\* true exactly when the one-shot blast value of m is at least v
C18_SeeIsBlastValue ==
    \A m \in AtomicCaptures(pos) : \A v \in Thresholds(BlastValue(pos, m)) :
        see_ge_atomic(pos, m, v) <=> BlastValue(pos, m) >= v

\* a capture whose blast value is exactly the threshold, and see_ge says no
C18_Witness ==
    \E m \in AtomicCaptures(pos) :
        /\ move_type(m) = NORMAL
        /\ BlastValue(pos, m) = see_atomic(pos, m)
        /\ BlastValue(pos, m) < VALUE_MATE
        /\ ~see_ge_atomic(pos, m, BlastValue(pos, m))
        /\ see_ge_atomic(pos, m, BlastValue(pos, m) - 1)

---------------------------------------------------------------------------
(* C20 *)

\* set() has built the position from the string last.fen
StringSet == last.op = "set" /\ "fen" \in DOMAIN last

\* the fullmove number of the string s, as the claim has it printed back
SameFullmove(s, t) == t.fm = IF s.fm >= 1 THEN s.fm ELSE 1

\* C20 as stated: fen() of the position built by set(s) has the piece
\* placement, active colour, castling availability and en-passant field of
\* s, and its fullmove number, 0 being written as 1
C20_FenRoundTrip ==
    StringSet =>
        /\ fen(pos).pl = last.fen.pl
        /\ fen(pos).stm = last.fen.stm
        /\ fen(pos).ca = last.fen.ca
        /\ fen(pos).ep = last.fen.ep
        /\ SameFullmove(last.fen, fen(pos))

\* a pawn of the side to move attacks the en-passant square ep of the
\* position P, and the pawn that has passed it stands in front of it
EnPassantPossible(P, ep) ==
    LET stm == P.sideToMove IN
    /\ (attacks_from_pawn(ep, Opp(stm)) \cap pieces_cpt(P, stm, PAWN)) # {}
    /\ piece_on(P, ep - pawn_push(stm)) = make_piece(Opp(stm), PAWN)
    /\ empty(P, ep)
    /\ empty(P, ep + pawn_push(stm))

\* C20, amended: fen() of the position built by set(s) has the piece
\* placement, active colour and castling availability of s; it has the
\* en-passant field of s when a pawn of the side to move can capture there,
\* and "-" otherwise; the fullmove number n >= 1 is preserved, with
\* gamePly = 2 * (n - 1) + [Black to move], and 0 is written as 1.
C20_FenRoundTripEpUsable ==
    StringSet =>
        LET s == last.fen
            t == fen(pos)
            black == IF s.stm = "b" THEN 1 ELSE 0 IN
        /\ t.pl = s.pl
        /\ t.stm = s.stm
        /\ t.ca = s.ca
        /\ t.ep = IF EpField(s) # SQ_NONE /\ EnPassantPossible(pos, EpField(s)) THEN s.ep
                  ELSE <<"-">>
        /\ SameFullmove(s, t)
        /\ s.fm >= 1 => pos.gamePly = 2 * (s.fm - 1) + black
        /\ t.fm = 1 + (pos.gamePly - black) \div 2

\* Black to move, all four castling rights, a fullmove number above 1, and
\* an en-passant square the string names and the position does not keep
C20_Witness ==
    /\ StringSet
    /\ last.fen.stm = "b"
    /\ last.fen.ca = <<"K", "Q", "k", "q">>
    /\ last.fen.fm = 3
    /\ pos.gamePly = 5
    /\ last.fen.ep = <<"e", "3">>
    /\ fen(pos).ep = <<"-">>

---------------------------------------------------------------------------
(* C21 *)

\* the do_move calls not yet undone
PendingMoves == {i \in 1..Len(hist) : hist[i].op = "do_move"}

\* C21: the StateInfo records form a strict stack. A do_move or do_null_move
\* puts one record on top of the chain it found (the new record's previous
\* is the old top); an undo_move or undo_null_move leaves the chain the
\* matching do found, so the top is the record that was on top before that
\* do. The chain under the k-th pending do is the chain that do found, and
\* gamePly is its value at set() plus the number of pending do_move calls.
C21_StateStack ==
    /\ Len(pos.states) = Len(Root.states) + Len(hist)
    /\ \A i \in 1..Len(hist) :
          hist[i].before.states = SubSeq(pos.states, 1, Len(Root.states) + i - 1)
    /\ pos.gamePly = Root.gamePly + Cardinality(PendingMoves)
    /\ last.op \in {"do_move", "do_null_move"} =>
          /\ SubSeq(pos.states, 1, Len(pos.states) - 1) = last.prev.states
          /\ pos.states[Len(pos.states) - 1] = St(last.prev)
    /\ last.op \in {"undo_move", "undo_null_move"} =>
          /\ pos.states = last.base.states
          /\ St(pos) = St(last.base)
          /\ SubSeq(last.prev.states, 1, Len(last.prev.states) - 1) = pos.states
          /\ pos.gamePly = last.base.gamePly

\* a move made on top of a null move has been undone: the null move's
\* record is the top again and gamePly is back at its value at set()
C21_Witness ==
    /\ last.op = "undo_move"
    /\ Len(hist) = 1
    /\ hist[1].op = "do_null_move"
    /\ Len(pos.states) = 2
    /\ St(pos) = St(last.base)
    /\ pos.gamePly = Root.gamePly
    /\ last.prev.gamePly = Root.gamePly + 1

---------------------------------------------------------------------------
(* C22 *)

\* the fields of a StateInfo the claim lists
SameStateFields(a, b) ==
    /\ a.key = b.key
    /\ a.pawnKey = b.pawnKey
    /\ a.materialKey = b.materialKey
    /\ a.castlingRights = b.castlingRights
    /\ a.epSquare = b.epSquare
    /\ a.rule50 = b.rule50
    /\ a.checkersBB = b.checkersBB
    /\ a.capturedPiece = b.capturedPiece

\* C22: do_move and do_null_move write only the record they put on top, and
\* undo_move and undo_null_move write no record: every record below the top
\* is as the operation found it, and after undo_move the top record holds
\* the key, pawnKey, materialKey, castlingRights, epSquare, rule50,
\* checkersBB and capturedPiece the position had before the move.
C22_RecordsBelowTopUnchanged ==
    /\ last.op \in {"do_move", "do_null_move"} =>
          \A i \in 1..Len(last.prev.states) : pos.states[i] = last.prev.states[i]
    /\ last.op \in {"undo_move", "undo_null_move"} =>
          /\ Len(pos.states) = Len(last.prev.states) - 1
          /\ \A i \in 1..Len(pos.states) : pos.states[i] = last.prev.states[i]
    /\ last.op = "undo_move" => SameStateFields(St(pos), St(last.base))

\* a move made after a capture has been undone: the record of the capture
\* is the top again, with its captured piece and a key other than the one
\* the undone move had produced
C22_Witness ==
    /\ last.op = "undo_move"
    /\ Len(pos.states) = 2
    /\ St(pos).capturedPiece # NO_PIECE
    /\ St(pos) = last.prev.states[2]
    /\ St(last.prev).key # St(pos).key
    /\ SameStateFields(St(pos), St(last.base))

---------------------------------------------------------------------------
(* C23, C24 *)

\* the XOR of castling[r] over the single rights r of b
RECURSIVE XorSingleRights(_, _)
XorSingleRights(Z, b) ==
    IF b = {} THEN {}
    ELSE LET r == lsb(b) IN XOR(Z.castling[{r}], XorSingleRights(Z, b \ {r}))

\* C23: after Position::init(), castling[0] is 0, castling[cr] is the XOR of
\* castling[r] over the single rights r of cr, each single right has a key
\* other than 0, and for all sets of rights a and c
\* castling[a] ^ castling[a & c] = castling[a & ~c]: the update do_move
\* makes to the key when it clears the rights c gives the key of the rights
\* left.
C23_CastlingKeysXorClosed ==
    \A run \in Runs : pos[run].ready =>
        LET Z == pos[run].Zobrist IN
        /\ Z.castling[{}] = {}
        /\ \A r \in CastlingRights : Z.castling[{r}] # {}
        /\ \A cr \in SUBSET CastlingRights :
              /\ Z.castling[cr] = XorSingleRights(Z, cr)
              /\ Z.castling[cr] = KeyValue(Z, ZobristCastling(cr))
        /\ \A a, c \in SUBSET CastlingRights :
              /\ XOR(Z.castling[a], Z.castling[a \cap c]) = Z.castling[a \ c]
              /\ KeyValue(Z, do_move_castling_key(ZobristCastling(a), a, c))
                    = Z.castling[do_move_castling_rights(a, c)]

\* init() has run: the key of all four rights is made of four draws, and
\* clearing White's two rights leaves the key of Black's two
C23_Witness ==
    \E run \in Runs :
        /\ pos[run].ready
        /\ Cardinality(pos[run].Zobrist.castling[CastlingRights]) = 4
        /\ XOR(pos[run].Zobrist.castling[CastlingRights],
               pos[run].Zobrist.castling[{WHITE_OO, WHITE_OOO}])
             = pos[run].Zobrist.castling[{BLACK_OO, BLACK_OOO}]
        /\ pos[run].Zobrist.castling[{BLACK_OO, BLACK_OOO}] # {}

---------------------------------------------------------------------------
(* C25 *)

\* the bitboards, the piece lists or the StateInfo are not what board[]
\* gives
Inconsistent(P) == ~BoardViewsAgree(P) \/ set_state(P, St(P)) # St(P)

Checked == last.op = "pos_is_ok"

\* C25 as stated: pos_is_ok() is false for every position whose bitboards,
\* piece lists, index array or StateInfo differ from what board[] gives,
\* and the positions set(), do_move, undo_move and do_null_move leave pass
\* it
C25_RejectsEveryInconsistency ==
    Checked =>
        /\ Inconsistent(pos) => last.result = FALSE
        /\ last.fault = "none" => last.result = TRUE

\* C25 amended: pos_is_ok() makes its quick check only. It is false exactly
\* when the square listed first for a king does not hold that king on
\* board[] or the en-passant square is not on the sixth rank of the side to
\* move; a difference in the bitboards, the index array, the keys, the
\* material or the checkers goes unnoticed. The positions set(), do_move,
\* undo_move and do_null_move leave are consistent and pass it.
C25_QuickCheckOnly ==
    Checked =>
        /\ last.result =
              (/\ pos.board[square_king(pos, WHITE)] = make_piece(WHITE, KING)
               /\ pos.board[square_king(pos, BLACK)] = make_piece(BLACK, KING)
               /\ St(pos).epSquare # SQ_NONE =>
                     rank_of(St(pos).epSquare) = (IF pos.sideToMove = WHITE THEN 5 ELSE 2))
        /\ last.fault = "none" => (last.result = TRUE /\ ~Inconsistent(pos))
        /\ last.fault \in {"occupancy", "colour", "index", "key", "material", "checkers"} =>
              (last.result = TRUE /\ Inconsistent(pos))
        /\ last.fault \in {"king", "ep"} => last.result = FALSE

\* a position left by do_move whose key was overwritten has passed
\* pos_is_ok()
C25_Witness ==
    /\ Checked
    /\ last.made = "do_move"
    /\ last.fault = "key"
    /\ set_state(pos, St(pos)).key # St(pos).key
    /\ last.result = TRUE

---------------------------------------------------------------------------
(* C26 *)

\* the squares strictly between a and b, when a and b share a rank, a file
\* or a diagonal
StrictlyBetween(a, b) ==
    {t \in Squares \ {a, b} :
        /\ (file_of(t) - file_of(a)) * (rank_of(b) - rank_of(a))
             = (rank_of(t) - rank_of(a)) * (file_of(b) - file_of(a))
        /\ (file_of(t) - file_of(a)) * (file_of(t) - file_of(b)) <= 0
        /\ (rank_of(t) - rank_of(a)) * (rank_of(t) - rank_of(b)) <= 0}

\* the piece on x is a rook, bishop or queen and s, another square, is on a
\* line that piece type moves along
AlignedSlider(P, x, s) ==
    LET pt == type_of(piece_on(P, x))
        df == file_of(x) - file_of(s)
        dr == rank_of(x) - rank_of(s) IN
    /\ x # s
    /\ \/ pt \in {ROOK, QUEEN} /\ (df = 0 \/ dr = 0)
       \/ pt \in {BISHOP, QUEEN} /\ (df = dr \/ df = -dr)

\* the pieces that stand alone between s and an aligned slider of `sliders`
LoneBlockers(P, sliders, s) ==
    {p \in pieces(P) : \E x \in sliders :
        /\ AlignedSlider(P, x, s)
        /\ (StrictlyBetween(s, x) \cap pieces(P)) = {p}}

\* the slider on x attacks s when the squares occ are occupied
SliderAttacks(P, x, s, occ) ==
    /\ type_of(piece_on(P, x)) \in {BISHOP, ROOK, QUEEN}
    /\ s \in attacks_bb(type_of(piece_on(P, x)), x, occ)

\* the pieces whose removal makes a slider of `sliders` attack s
Uncoverers(P, sliders, s) ==
    {p \in pieces(P) \ {s} : \E x \in sliders \ {p} :
        /\ ~SliderAttacks(P, x, s, pieces(P))
        /\ SliderAttacks(P, x, s, pieces(P) \ {p})}

\* the sliders of `sliders` with one piece between them and s, that piece
\* of the colour of the piece on s
PinnersOf(P, sliders, s) ==
    {x \in sliders :
        /\ AlignedSlider(P, x, s)
        /\ \E p \in pieces_c(P, color_of(piece_on(P, s))) :
              (StrictlyBetween(s, x) \cap pieces(P)) = {p}}

\* the sets of sliders asked about: a side's pieces, all pieces, a side's
\* rooks and bishops
SliderSets(P) ==
    {pieces_c(P, c) : c \in Colors} \cup {pieces(P)}
    \cup {pieces_cpt2(P, c, ROOK, BISHOP) : c \in Colors}

\* C26: for every occupied square s and every set of sliders, the blockers
\* slider_blockers returns are exactly the pieces standing alone between s
\* and a rook, bishop or queen of the set aligned with s on a line of its
\* kind, which are exactly the pieces whose removal makes a slider of the
\* set attack s; the pinners are exactly the sliders of the set whose lone
\* blocker has the colour of the piece on s.
C26_SliderBlockers ==
    \A s \in pieces(pos), sliders \in SliderSets(pos) :
        LET r == slider_blockers(pos, sliders, s) IN
        /\ r.blockers = LoneBlockers(pos, sliders, s)
        /\ r.blockers = Uncoverers(pos, sliders, s)
        /\ r.pinners = PinnersOf(pos, sliders, s)

\* the black king has a black blocker with its pinner, and some square has
\* a blocker of the other colour and no pinner
C26_Witness ==
    /\ slider_blockers(pos, pieces_c(pos, WHITE), square_king(pos, BLACK)).pinners # {}
    /\ (slider_blockers(pos, pieces_c(pos, WHITE), square_king(pos, BLACK)).blockers
          \cap pieces_c(pos, BLACK)) # {}
    /\ \E s \in pieces(pos), c \in Colors :
          /\ slider_blockers(pos, pieces_c(pos, c), s).blockers # {}
          /\ slider_blockers(pos, pieces_c(pos, c), s).pinners = {}

----------------------------------------------------------------------------
(* C27 *)

\* a piece of type pt on from reaches to over the occupied squares occ
\* (knight jump, king step, or a free rook or bishop line)
Reaches(pt, from, to, occ) ==
    LET df == Abs(file_of(to) - file_of(from))
        dr == Abs(rank_of(to) - rank_of(from))
        free == StrictlyBetween(from, to) \cap occ = {} IN
    /\ from # to
    /\ \/ pt = KNIGHT /\ {df, dr} = {1, 2}
       \/ pt = KING /\ df <= 1 /\ dr <= 1
       \/ pt \in {ROOK, QUEEN} /\ (df = 0 \/ dr = 0) /\ free
       \/ pt \in {BISHOP, QUEEN} /\ df = dr /\ free

\* a pawn of colour c on from attacks to
PawnHits(c, from, to) ==
    /\ Abs(file_of(to) - file_of(from)) = 1
    /\ rank_of(to) - rank_of(from) = (IF c = WHITE THEN 1 ELSE -1)

\* the pieces of colour c that attack s over the occupied squares occ,
\* read from the board alone
HitsOf(P, c, s, occ) ==
    {a \in Squares :
        /\ P.board[a] # NO_PIECE
        /\ color_of(P.board[a]) = c
        /\ IF type_of(P.board[a]) = PAWN THEN PawnHits(c, a, s)
           ELSE Reaches(type_of(P.board[a]), a, s, occ)}

Occupied(P) == {s \in Squares : P.board[s] # NO_PIECE}

\* the conditions a move of ordinary kind has to meet
SoundOrdinary(P, m) ==
    LET us == P.sideToMove
        them == Opp(us)
        from == from_sq(m)
        to == to_sq(m)
        pc == P.board[from]
        fwd == IF us = WHITE THEN 8 ELSE -8
        ksq == CHOOSE k \in Squares : P.board[k] = make_piece(us, KING)
        chk == HitsOf(P, them, ksq, Occupied(P)) IN
    \* no promotion piece is encoded
    /\ m = make_move(from, to)
    \* the origin holds a piece of the side to move
    /\ pc # NO_PIECE /\ color_of(pc) = us
    \* the destination holds no piece of the mover
    /\ ~(P.board[to] # NO_PIECE /\ color_of(P.board[to]) = us)
    \* the geometry of the piece reaches the destination
    /\ IF type_of(pc) = PAWN
       THEN /\ rank_of(to) # (IF us = WHITE THEN 7 ELSE 0)
            /\ \/ /\ PawnHits(us, from, to)
                  /\ P.board[to] # NO_PIECE /\ color_of(P.board[to]) = them
               \/ to = from + fwd /\ P.board[to] = NO_PIECE
               \/ /\ to = from + 2 * fwd
                  /\ rank_of(from) = (IF us = WHITE THEN 1 ELSE 6)
                  /\ P.board[to] = NO_PIECE
                  /\ P.board[from + fwd] = NO_PIECE
       ELSE Reaches(type_of(pc), from, to, Occupied(P))
    \* in check: a king move off the attacked squares, or an answer to the
    \* one checker
    /\ chk # {} =>
          IF type_of(pc) = KING
          THEN HitsOf(P, them, to, Occupied(P) \ {from}) = {}
          ELSE /\ Cardinality(chk) = 1
               /\ \E c \in chk : to = c \/ to \in StrictlyBetween(c, ksq)

\* moves of the other kinds a search may hold: what the generator emits,
\* the same squares under each other kind, the king and pawn moves of
\* ordinary kind taken for a castling or an en-passant capture, and the
\* king onto its own rooks
SpecialMoves(P) ==
    LET us == P.sideToMove
        gen == {m \in generate(P) : move_type(m) # NORMAL}
        kp == {m \in generate(P) : /\ move_type(m) = NORMAL
                                   /\ type_of(moved_piece(P, m)) \in {KING, PAWN}}
        ksq == square_king(P, us) IN
    gen
    \cup {make_special(T, from_sq(m), to_sq(m), KNIGHT) :
            T \in {ENPASSANT, CASTLING}, m \in kp}
    \cup {make_special(T, from_sq(m), to_sq(m), pt) :
            T \in {PROMOTION, ENPASSANT, CASTLING}, m \in gen, pt \in {KNIGHT, QUEEN}}
    \cup {make_special(CASTLING, ksq, r, KNIGHT) : r \in pieces_cpt(P, us, ROOK)}

\* the promotion bits a value of ordinary kind may carry
PromotionBits == 0 .. 3

\* C27: a move that pseudo_legal accepts meets the conditions of its kind:
\* one of ordinary kind encodes no promotion piece, starts on a piece of the
\* side to move, ends on no piece of the mover, follows the geometry of the
\* piece (a pawn captures only an enemy piece, pushes only onto empty
\* squares and never reaches the last rank) and, when the side to move is in
\* check, is a king move to a square not attacked with the king lifted or,
\* in single check, blocks or captures the checker; one of any other kind
\* is in the legal move list; and none is accepted once the game of the
\* variant has ended
C27_PseudoLegalSound ==
    /\ \A from \in Squares, to \in Squares :
          pseudo_legal(pos, make_move(from, to))
              => SoundOrdinary(pos, make_move(from, to))
    /\ \A from \in pieces_c(pos, pos.sideToMove), to \in Squares,
          b \in PromotionBits \ {0} :
          ~pseudo_legal(pos, b * 4096 + make_move(from, to))
    /\ \A m \in SpecialMoves(pos) :
          pseudo_legal(pos, m) => (m \in generate(pos) /\ KingSafeAfter(pos, m))
    /\ is_variant_end(pos) =>
          \A from \in Squares, to \in Squares : ~pseudo_legal(pos, make_move(from, to))

\* the side to move is in check after a move: a king step and a block or
\* capture of the checker are accepted, a pawn push or piece move that
\* ignores the check is refused, and so is a move of another kind
C27_Witness ==
    LET us == pos.sideToMove IN
    /\ hist # <<>>
    /\ checkers(pos) # {}
    /\ \E to \in Squares : pseudo_legal(pos, make_move(square_king(pos, us), to))
    /\ \E from \in pieces_c(pos, us) \ {square_king(pos, us)},
          to \in checkers(pos) \cup StrictlyBetween(lsb(checkers(pos)), square_king(pos, us)) :
          pseudo_legal(pos, make_move(from, to))
    /\ \E from \in pieces_c(pos, us), to \in Squares :
          /\ \/ /\ type_of(piece_on(pos, from)) = PAWN
                /\ to = from + pawn_push(us)
                /\ empty(pos, to)
                /\ rank_of(to) \notin {RANK_1, RANK_8}
             \/ /\ type_of(piece_on(pos, from)) \notin {KING, PAWN}
                /\ to \in attacks_from(pos, piece_on(pos, from), from)
                /\ to \notin pieces_c(pos, us)
          /\ ~pseudo_legal(pos, make_move(from, to))
    /\ \E m \in SpecialMoves(pos) : ~pseudo_legal(pos, m)

----------------------------------------------------------------------------
(* C28 *)

\* C28: two workers whose Positions were set from the same root and who run
\* do_move, undo_move, do_null_move and undo_null_move in any interleaving
\* each hold, after every operation, the Position and StateInfo records they
\* hold when they run their operations alone, and the record both chains
\* end in is never written
C28_WorkersIndependent ==
    /\ \A w \in Workers : View(pos, w) = Alone(last.root, hist[w].trace)
    /\ pos.rootSt = last.root.states[1]

\* one worker has just taken a move back onto the root's record while the
\* other stands two of its own records above it, after a different first
\* operation
C28_Witness ==
    \E w \in Workers, v \in Workers :
        /\ w # v
        /\ last.w = w
        /\ last.op \in {"undo_move", "undo_null_move"}
        /\ hist[w].stack = <<>>
        /\ Len(hist[v].stack) = 2
        /\ hist[v].trace[1] # hist[w].trace[1]
        /\ View(pos, v) # View(pos, w)

----------------------------------------------------------------------------
(* C29 *)

\* the fields do_move followed by undo_move has to bring back
SameBoardFields(A, B) ==
    /\ A.board = B.board
    /\ A.byTypeBB = B.byTypeBB
    /\ A.byColorBB = B.byColorBB
    /\ A.pieceCount = B.pieceCount
    /\ \A pc \in Pieces : ListedSquares(A, pc) = ListedSquares(B, pc)
    /\ A.sideToMove = B.sideToMove
    /\ A.gamePly = B.gamePly
    /\ A.states = B.states

\* the kind of a legal move, as the claim lists them
KindOf(P, m) ==
    CASE move_type(m) = PROMOTION -> "promotion"
      [] move_type(m) = ENPASSANT -> "en passant"
      [] move_type(m) = CASTLING -> "castling"
      [] OTHER -> IF capture(P, m) THEN "capture" ELSE "normal"

\* C29: for every legal move of every kind (normal, capture, promotion, en
\* passant, castling), do_move followed by undo_move brings back board[],
\* byTypeBB, byColorBB, pieceCount, the set of squares listed for each
\* piece, sideToMove, gamePly and st with the record it points to
C29_EveryKindUndone ==
    /\ \A m \in MoveListLegal(pos) :
          SameBoardFields(undo_move(do_move(pos, m, gives_check(pos, m)), m), pos)
    /\ UndoneDirectly => SameBoardFields(pos, last.base)

\* a castling has been made and taken back: king and rook stand on their
\* squares again, and the position has legal moves of the other kinds too
C29_Witness ==
    /\ UndoneDirectly
    /\ move_type(last.m) = CASTLING
    /\ piece_on(pos, from_sq(last.m)) = make_piece(pos.sideToMove, KING)
    /\ piece_on(pos, to_sq(last.m)) = make_piece(pos.sideToMove, ROOK)
    /\ \E m \in MoveListLegal(pos) : KindOf(pos, m) = "capture"
    /\ \E m \in MoveListLegal(pos) : KindOf(pos, m) = "normal"

----------------------------------------------------------------------------
(* C30 *)

\* C30: the checkersBB of the state do_move pushes is empty when the caller
\* passed givesCheck == false, whatever the board, and holds the mover's
\* pieces that attack the king of the side now to move when the caller
\* passed givesCheck == true; whether the move gives check plays no part
C30_CheckersFromCaller ==
    last.op = "do_move" =>
        LET mover == Opp(pos.sideToMove)
            ksq == CHOOSE k \in Squares : pos.board[k] = make_piece(pos.sideToMove, KING) IN
        St(pos).checkersBB =
            IF last.givesCheck THEN HitsOf(pos, mover, ksq, Occupied(pos)) ELSE {}

\* a move that gives check has been made with givesCheck == false: the king
\* of the side to move is attacked and checkersBB is empty
C30_Witness ==
    /\ last.op = "do_move"
    /\ ~last.givesCheck
    /\ gives_check(last.prev, last.m)
    /\ AttackingPieces(pos, Opp(pos.sideToMove), square_king(pos, pos.sideToMove)) # {}
    /\ St(pos).checkersBB = {}

----------------------------------------------------------------------------
(* C31 *)

\* C31 in chess: in every position reached by do_move, undo_move,
\* do_null_move and undo_null_move the pawnKey, materialKey,
\* nonPawnMaterial and psq of the top StateInfo are those set_state
\* computes from scratch
C31_Chess ==
    LET si == set_state(pos, St(pos)) IN
    /\ St(pos).pawnKey = si.pawnKey
    /\ St(pos).materialKey = si.materialKey
    /\ St(pos).nonPawnMaterial = si.nonPawnMaterial
    /\ St(pos).psq = si.psq

\* C31 as stated, in Crazyhouse: in every reachable position the
\* incrementally maintained pawnKey, materialKey, nonPawnMaterial of both
\* colours and psq of the top StateInfo equal the values set_state computes
\* from scratch, the pieces in hand included
C31_IncrementalIsSetState ==
    LET s == set_state_house(pos) IN
    /\ St(pos.P).pawnKey = s.si.pawnKey
    /\ St(pos.P).materialKey = s.si.materialKey
    /\ St(pos.P).nonPawnMaterial[WHITE] = s.si.nonPawnMaterial[WHITE]
    /\ St(pos.P).nonPawnMaterial[BLACK] = s.si.nonPawnMaterial[BLACK]
    /\ St(pos.P).psq = s.si.psq
    /\ pos.inHandPsq = s.inHandPsq

\* a piece other than a pawn has been captured: it is in the hand of the
\* capturer, whose nonPawnMaterial is short of set_state's by its value,
\* while keys, psq and the other side's nonPawnMaterial agree
C31_Witness ==
    LET s == set_state_house(pos)
        us == Opp(pos.P.sideToMove)
        captured == St(pos.P).capturedPiece IN
    /\ last.op = "do_move"
    /\ captured # NO_PIECE
    /\ type_of(captured) # PAWN
    /\ pos.pieceCountInHand[make_piece(us, type_of(captured))] = 1
    /\ St(pos.P).nonPawnMaterial[us] + PieceValue(captured) = s.si.nonPawnMaterial[us]
    /\ St(pos.P).nonPawnMaterial[Opp(us)] = s.si.nonPawnMaterial[Opp(us)]
    /\ St(pos.P).pawnKey = s.si.pawnKey
    /\ St(pos.P).materialKey = s.si.materialKey
    /\ St(pos.P).psq = s.si.psq
    /\ pos.inHandPsq = s.inHandPsq
    /\ pos.inHandKey = s.inHandKey

----------------------------------------------------------------------------
(* C32 *)

\* the legal moves that are not castling, en passant or promotion
OrdinaryLegal(P) == {m \in MoveListLegal(P) : move_type(m) = NORMAL}

\* the key of the top record after do_move(m)
KeyOfDoMove(P, m) == St(do_move(P, m, gives_check(P, m))).key

\* what do_move puts in the key besides the side and the pieces: the
\* en-passant square that goes, the one that comes, and the castling
\* rights that go
OtherDraws(P, m) ==
    LET Q == do_move(P, m, gives_check(P, m))
        gone == St(P).castlingRights \ St(Q).castlingRights IN
    XOR(XOR(IF St(P).epSquare # SQ_NONE
            THEN ZobristEnpassant(file_of(St(P).epSquare)) ELSE {},
            IF St(Q).epSquare # SQ_NONE
            THEN ZobristEnpassant(file_of(St(Q).epSquare)) ELSE {}),
        ZobristCastling(gone))

----------------------------------------------------------------------------
(* C33 *)

\* the squares of a castling of colour c given as king takes own rook
CastlingSquares(c, m) ==
    LET kingSide == to_sq(m) > from_sq(m) IN
    [kfrom |-> from_sq(m),
     rfrom |-> to_sq(m),
     kto |-> make_square(IF kingSide THEN 6 ELSE 2, IF c = WHITE THEN 0 ELSE 7),
     rto |-> make_square(IF kingSide THEN 5 ELSE 3, IF c = WHITE THEN 0 ELSE 7)]

\* C33: do_move of a castling leaves the king on relative G1 or C1 and the
\* rook on relative F1 or D1, the squares they left empty, every other
\* square as it was, and board[], bitboards, piece lists and key consistent,
\* also when the king or the rook stands on a square the other one goes to
\* or does not move; undo_move puts the king back on kfrom and the rook back
\* on rfrom
C33_Castling ==
    /\ (last.op = "do_move" /\ move_type(last.m) = CASTLING) =>
          LET c == last.prev.sideToMove
              q == CastlingSquares(c, last.m) IN
          /\ last.prev.board[q.kfrom] = make_piece(c, KING)
          /\ last.prev.board[q.rfrom] = make_piece(c, ROOK)
          /\ pos.board[q.kto] = make_piece(c, KING)
          /\ pos.board[q.rto] = make_piece(c, ROOK)
          /\ \A s \in {q.kfrom, q.rfrom} \ {q.kto, q.rto} : pos.board[s] = NO_PIECE
          /\ \A s \in Squares \ {q.kfrom, q.rfrom, q.kto, q.rto} :
                pos.board[s] = last.prev.board[s]
          /\ BoardViewsAgree(pos)
          /\ St(pos).key = set_state(pos, St(pos)).key
          /\ St(pos).capturedPiece = NO_PIECE
    /\ (UndoneDirectly /\ move_type(last.m) = CASTLING) =>
          LET c == pos.sideToMove
              q == CastlingSquares(c, last.m) IN
          /\ pos.board[q.kfrom] = make_piece(c, KING)
          /\ pos.board[q.rfrom] = make_piece(c, ROOK)
          /\ pos.board = last.base.board
          /\ BoardViewsAgree(pos)
          /\ pos.states = last.base.states

\* a castling in which king and rook change places has been made
C33_Witness ==
    /\ last.op = "do_move"
    /\ move_type(last.m) = CASTLING
    /\ pos.chess960
    /\ CastlingSquares(last.prev.sideToMove, last.m).kto = to_sq(last.m)
    /\ CastlingSquares(last.prev.sideToMove, last.m).rto = from_sq(last.m)
    /\ piece_on(pos, to_sq(last.m)) = make_piece(last.prev.sideToMove, KING)
    /\ piece_on(pos, from_sq(last.m)) = make_piece(last.prev.sideToMove, ROOK)

---------------------------------------------------------------------------
(* C34 *)

\* a call of see_ge that has made at least one pass of its loop
SeePassMade == IF last.op = "see_ge" THEN last.passes > 0 ELSE FALSE

\* the pass by pass run of see_ge ends with the answer of see_ge
SeeLoopAnswer ==
    (~SeeLoopIdle \/ last.op # "see_ge") \/ last.result = see_ge(pos, last.m, last.v)

\* the attackers of the side S whose turn the last pass was, the pinned ones
\* among them, and the pieces that pin to the king of S
PassOwn == last.pass.attackers \cap pieces_c(pos, last.pass.stm)
PassPinned == PassOwn \cap St(pos).blockersForKing[last.pass.stm]
PassPinners == St(pos).pinnersForKing[last.pass.stm]

\* C34: in a pass of see_ge for the side S, the attackers of S that are
\* blockersForKing[S] are left out when every piece of pinnersForKing[S]
\* stands in the running occupancy, all attackers of S are admitted once a
\* pinner has left the occupancy, and the king of S is never left out.
C34_PinnedLeftOut ==
    SeePassMade =>
        /\ PassPinners \subseteq last.pass.occupied =>
              last.pass.stmAttackers = PassOwn \ PassPinned
        /\ ~(PassPinners \subseteq last.pass.occupied) =>
              last.pass.stmAttackers = PassOwn
        /\ square_king(pos, last.pass.stm) \in PassOwn =>
              square_king(pos, last.pass.stm) \in last.pass.stmAttackers

\* the third pass of an exchange: the pinner has captured in the second
\* pass, and the piece it pinned is among the attackers now
C34_Witness ==
    /\ SeePassMade
    /\ last.passes >= 3
    /\ PassPinned # {}
    /\ PassPinned \subseteq last.pass.stmAttackers
    /\ ~(PassPinners \subseteq last.pass.occupied)
    /\ PassPinners \subseteq pieces(pos)

---------------------------------------------------------------------------
(* C35 *)

\* the pieces that attack the destination of the move see_ge is called
\* with: as the position stands, and counting those that stand behind others
DirectAttackers == attackers_to(pos, to_sq(last.m))
XrayAttackers == attackers_to_occ(pos, to_sq(last.m), {})

\* the running pass has taken exactly one of the attackers admitted out of
\* the occupancy
OneAttackerLeft ==
    \E a \in last.pass.stmAttackers :
        /\ a \in last.pass.occupied
        /\ last.occupied = last.pass.occupied \ {a}

\* C35 as stated: each pass of the loop of see_ge returns or removes exactly
\* one attacker from the occupancy, the attackers are a subset of the
\* occupancy, and the loop makes at most as many passes as there are pieces
\* attacking the destination square.
C35_PassesWithinAttackers ==
    SeePassMade =>
        /\ last.running => OneAttackerLeft
        /\ last.pass.attackers \subseteq last.pass.occupied
        /\ last.attackers \subseteq last.occupied
        /\ last.passes <= Cardinality(DirectAttackers)

\* C35, amended: each pass of the loop of see_ge returns or removes exactly
\* one attacker from the occupancy, the attackers are a subset of the
\* occupancy, and the loop makes at most one pass more than there are pieces
\* other than the mover that attack the destination square directly or from
\* behind other pieces.
C35_PassesWithinXrayAttackers ==
    SeePassMade =>
        /\ last.running => OneAttackerLeft
        /\ last.pass.attackers \subseteq last.pass.occupied
        /\ last.attackers \subseteq last.occupied
        /\ last.passes <= Cardinality(XrayAttackers \ {from_sq(last.m)}) + 1

\* Rd2xd5 with a rook behind on d1: the fourth pass ends the exchange, one
\* pass more than pieces attack d5 as the position stands
C35_Witness ==
    /\ SeePassMade
    /\ ~last.running
    /\ last.passes = 4
    /\ last.passes > Cardinality(DirectAttackers)
    /\ last.passes = Cardinality(XrayAttackers \ {from_sq(last.m)}) + 1
    /\ from_sq(last.m) \in DirectAttackers

---------------------------------------------------------------------------
(* C36 *)

\* thresholds: the differences of two piece values, each with the values
\* next to it
SeeValues == {VALUE_ZERO} \cup {PieceValueMg[pt] : pt \in PAWN..QUEEN}
SeeDifferences ==
    {a - b + d : a \in SeeValues, b \in SeeValues, d \in {-1, 0, 1}}

\* the thresholds of SeeDifferences for which see_ge(m, v) holds
SeeGeHolds(m) == {v \in SeeDifferences : see_ge(pos, m, v)}

\* C36: if see_ge(m, v) holds then see_ge(m, w) holds for every w <= v.
C36_SeeGeMonotone ==
    last.op # "see_ge" =>
        \A m \in MoveListLegal(pos) :
            LET holds == SeeGeHolds(m) IN
            \A v \in holds, w \in SeeDifferences : w <= v => w \in holds

\* a capture on a square defended by a pinned piece, for which see_ge holds
\* up to a threshold above zero and fails from the next one on
C36_Witness ==
    /\ last.op # "see_ge"
    /\ \E m \in MoveListLegal(pos) :
          /\ capture(pos, m)
          /\ (attackers_to(pos, to_sq(m)) \cap St(pos).blockersForKing[Opp(pos.sideToMove)]
                \cap pieces_c(pos, Opp(pos.sideToMove))) # {}
          /\ LET holds == SeeGeHolds(m) IN
             \E v \in holds : v > 0 /\ v + 1 \in SeeDifferences \ holds

---------------------------------------------------------------------------
(* C37 *)

\* the numbers of previous pointers is_draw has followed from st when its
\* loop reads stp->key, for end reversible plies
IsDrawSteps(end) == {i \in 4..end : i % 2 = 0}

\* the records below the top one: the one of set() is the lowest
RecordsBelow == Len(pos.states) - 1

\* C37: pliesFromNull of the top StateInfo is at most the number of records
\* below it in the chain, so is_draw, stepping back min(rule50,
\* pliesFromNull) plies at most (pliesFromNull in Crazyhouse), never goes
\* below the record of set().
C37_ChainDeepEnough ==
    /\ St(pos).pliesFromNull <= RecordsBelow
    /\ \A i \in IsDrawSteps(Min(St(pos).rule50, St(pos).pliesFromNull)) : i <= RecordsBelow
    /\ \A i \in IsDrawSteps(St(pos).pliesFromNull) : i <= RecordsBelow
    /\ last.op = "set" => St(pos).pliesFromNull = 0
    /\ last.op = "do_move" => St(pos).pliesFromNull = St(last.prev).pliesFromNull + 1
    /\ last.op = "do_null_move" => St(pos).pliesFromNull = 0

\* four moves after set(), in a position whose halfmove clock started at 6
\* or 4: is_draw reads the key of the record of set() and no further
C37_Witness ==
    /\ St(pos).rule50 > St(pos).pliesFromNull
    /\ St(pos).pliesFromNull = 4
    /\ RecordsBelow = 4
    /\ IsDrawSteps(Min(St(pos).rule50, St(pos).pliesFromNull)) = {4}
    /\ pos.states[Len(pos.states) - 4].key = St(pos).key
    /\ is_draw(pos, 5)

---------------------------------------------------------------------------
(* C38 *)

\* the entry Pawns::probe computes for the position when it finds nothing
PawnsFresh == LET r == pawns_probe(pos, [i \in 0..(PawnsTableSize - 1) |-> PawnsEntryZero]) IN
              r.table[r.slot]

\* the files on which the colour c has no pawn
FilesWithout(c) == {f \in 0..7 : \A s \in pieces_cpt(pos, c, PAWN) : file_of(s) # f}

\* the fields probe recomputes are those of the position
PawnsRecomputed(e) ==
    /\ e.key = St(pos).pawnKey
    /\ e.score = PawnsFresh.score
    /\ e.passedPawns = PawnsFresh.passedPawns
    /\ e.semiopenFiles = [c \in Colors |-> FilesWithout(c)]
    /\ e.asymmetry = Cardinality(XOR(FilesWithout(WHITE), FilesWithout(BLACK)))
    /\ e.openFiles = Cardinality(FilesWithout(WHITE) \cap FilesWithout(BLACK))

\* C38: Pawns::probe(pos) uses the slot selected by the pawn key; if the key
\* stored there is the pawn key the table is left as it is, otherwise key,
\* score, passedPawns, semiopenFiles, asymmetry and openFiles of that slot
\* are recomputed and stored and no other slot changes; the entry returned
\* holds the pawn key.
C38_ProbeCaches ==
    last.op = "probe" =>
        LET key == St(pos).pawnKey
            i == last.slot IN
        /\ i = pawns_table_index(key)
        /\ last.before[i].key = key => last.pawnsTable = last.before
        /\ last.before[i].key # key =>
              /\ PawnsRecomputed(last.pawnsTable[i])
              /\ \A j \in 0..(PawnsTableSize - 1) :
                    j # i => last.pawnsTable[j] = last.before[j]
        /\ last.pawnsTable[i].key = key

\* the probe has replaced the entry of another pawn structure that shared
\* the slot, and the other slot holds an entry too
C38_Witness ==
    /\ last.op = "probe"
    /\ last.before[last.slot].key \notin {{}, St(pos).pawnKey}
    /\ last.before[last.slot].score # last.pawnsTable[last.slot].score
    /\ last.pawnsTable[last.slot].passedPawns[WHITE] # {}
    /\ \A j \in 0..(PawnsTableSize - 1) : last.pawnsTable[j].key # {}

---------------------------------------------------------------------------
(* C39 *)

\* the values of the last save fit the fields of the entry
TTFits ==
    /\ last.k \in 0..65535
    /\ last.m \in 0..65535
    /\ last.v \in -32768..32767
    /\ last.d \in -128..127
    /\ last.b \in 0..3
    /\ last.g \in {4 * n : n \in 0..63}

\* C39: after save(k, v, b, d, m, g) with values that fit the fields,
\* move(), value(), depth() and bound() return m, v, d and b; new_search()
\* advances the generation by 4 modulo 256, so that its low two bits are
\* always zero and the bound keeps the low two bits of genBound8 to itself.
C39_EntryRoundTrip ==
    /\ pos.generation \in {4 * n : n \in 0..63}
    /\ (last.op = "save" /\ TTFits) =>
          /\ tt_move(pos.entry) = last.m
          /\ tt_value(pos.entry) = last.v
          /\ tt_depth(pos.entry) = last.d
          /\ tt_bound(pos.entry) = last.b
          /\ pos.entry.genBound8 = last.g + last.b
          /\ pos.entry.genBound8 - tt_bound(pos.entry) = last.g

\* an entry saved at the last generation before the byte wraps, with bound
\* 3 and the lowest value and depth: every bit of genBound8 is set
C39_Witness ==
    /\ last.op = "save"
    /\ TTFits
    /\ last.g = 252
    /\ pos.entry.genBound8 = 255
    /\ tt_bound(pos.entry) = 3
    /\ tt_value(pos.entry) = -32768
    /\ tt_depth(pos.entry) = -128
    /\ tt_move(pos.entry) = 796

---------------------------------------------------------------------------
(* C40 *)

\* C40: begin_ <= current_ <= end_ always; underflow never moves current_;
\* uflow advances it by one and returns the character read, unless current_
\* is end_, when it returns eof and does not move; pbackfail(ch) steps back
\* by one when current_ > begin_ and ch is eof or the preceding character,
\* and otherwise returns eof and leaves current_; showmanyc returns
\* end_ - current_.
C40_BufferWithinBounds ==
    /\ pos.begin_ <= pos.current_
    /\ pos.current_ <= pos.end_
    /\ last.op = "underflow" =>
          /\ pos.current_ = last.before
          /\ last.ret = IF last.before = pos.end_ THEN CharEof ELSE pos.mem[last.before + 1]
    /\ last.op = "uflow" =>
          IF last.before = pos.end_
          THEN last.ret = CharEof /\ pos.current_ = last.before
          ELSE last.ret = pos.mem[last.before + 1] /\ pos.current_ = last.before + 1
    /\ last.op = "pbackfail" =>
          IF last.before > pos.begin_ /\ (last.ch = CharEof \/ last.ch = pos.mem[last.before])
          THEN pos.current_ = last.before - 1 /\ last.ret = pos.mem[last.before]
          ELSE last.ret = CharEof /\ pos.current_ = last.before
    /\ last.op = "showmanyc" =>
          last.ret = pos.end_ - pos.current_ /\ pos.current_ = last.before

\* pbackfail with the character just read has stepped back from end_ in a
\* buffer that starts and ends inside the memory
C40_Witness ==
    /\ last.op = "pbackfail"
    /\ last.ch = 65
    /\ last.before = pos.end_
    /\ pos.current_ = pos.end_ - 1
    /\ pos.begin_ > 0
    /\ pos.end_ < Len(pos.mem)
    /\ last.ret = 65

====
